---- MODULE Spec2Model ----
(***************************************************************************)
(* Payment reconciliation core of codeskytz/non-relational-api:            *)
(* PaymentService (services/paymentService.js), the payments and           *)
(* webhook_logs tables (migrations) and the webhook endpoint.              *)
(*                                                                         *)
(* Representation.  JSON strings whose characters matter (the raw status)  *)
(* are sequences of one-character strings, so toLowerCase is computed.     *)
(* Identifiers (transaction ids, phone numbers, link ids) are opaque.      *)
(* A field that is absent, null or otherwise falsy in JavaScript is NULL.  *)
(* Timestamps are clock ticks; NoTime is SQL NULL for a timestamp.         *)
(***************************************************************************)
EXTENDS Integers, Sequences, FiniteSets, TLC

\* ------------------------------------------------------------------ bounds
MaxPayments == 2
\* calls that can write a payment's status: webhook deliveries and calls of
\* processPayment, updatePaymentStatus and handlePaymentCallback
MaxCalls == 2
MaxTime == 3
\* webhook requests that can be in flight at once
MaxHandlers == 2

\* ---------------------------------------------------------------- constants
\* INTERVAL '1 hour' of the phone lookup, in clock ticks
Hour == 2

NULL == "NULL"
NoTime == 0
\* SQL NULL / undefined for a numeric payment id (SERIAL ids start at 1)
NoId == 0

Statuses == {"pending", "processing", "completed", "failed", "cancelled"}

\* ------------------------------------------------------- strings, by character
UpperChars == <<"A","B","C","D","E","F","G","H","I","J","K","L","M",
                "N","O","P","Q","R","S","T","U","V","W","X","Y","Z">>
LowerChars == <<"a","b","c","d","e","f","g","h","i","j","k","l","m",
                "n","o","p","q","r","s","t","u","v","w","x","y","z">>

toLowerChar(c) ==
    IF \E i \in DOMAIN UpperChars : UpperChars[i] = c
    THEN LowerChars[CHOOSE i \in DOMAIN UpperChars : UpperChars[i] = c]
    ELSE c

toUpperChar(c) ==
    IF \E i \in DOMAIN LowerChars : LowerChars[i] = c
    THEN UpperChars[CHOOSE i \in DOMAIN LowerChars : LowerChars[i] = c]
    ELSE c

\* String.prototype.toLowerCase
toLowerCase(s) == [i \in DOMAIN s |-> toLowerChar(s[i])]

\* input generation only: the upper-case and the capitalised spelling of a word
UpperCased(s) == [i \in DOMAIN s |-> toUpperChar(s[i])]
Capitalised(s) == [i \in DOMAIN s |-> IF i = 1 THEN toUpperChar(s[i]) ELSE s[i]]

\* the status words of the two switch statements, as character sequences
w_success == <<"s","u","c","c","e","s","s">>
w_successful == <<"s","u","c","c","e","s","s","f","u","l">>
w_completed == <<"c","o","m","p","l","e","t","e","d">>
w_paid == <<"p","a","i","d">>
w_failed == <<"f","a","i","l","e","d">>
w_error == <<"e","r","r","o","r">>
w_cancelled == <<"c","a","n","c","e","l","l","e","d">>
w_canceled == <<"c","a","n","c","e","l","e","d">>
w_pending == <<"p","e","n","d","i","n","g">>
w_processing == <<"p","r","o","c","e","s","s","i","n","g">>
w_initiated == <<"i","n","i","t","i","a","t","e","d">>
w_unknown == <<"u","n","k","n","o","w","n">>
w_weird == <<"w","e","i","r","d">>

\* ------------------------------------------------------------ JSON values
\* a JSON value of a field whose type matters: a string, a number, or absent
Str(s) == [type |-> "string", val |-> s]
Num(s) == [type |-> "number", val |-> s]
Absent == [type |-> "undefined", val |-> <<>>]

\* JavaScript truthiness of such a value ("" is falsy)
Truthy(v) == v.type # "undefined" /\ v.val # <<>>
IsString(v) == v.type = "string"

\* ------------------------------------------------------------ input domains
\* the tokens uuidv4 returns, in the order in which fresh ones are drawn
Tokens == <<"L1", "L2", "L3", "L4">>
LinkIds == {Tokens[i] : i \in 1..MaxPayments}
\* a well-formed link id that no generatePaymentLink call returns
UnknownLink == "L9"
TranIds == {"T1", "T2"}
Phones == {"712345678"}
\* amounts are counted in hundredths (DECIMAL(10,2)): 100000 is 1000.00
Amounts == {100000}

\* bodies of a create-transaction response that carry a JSON object: the
\* transaction id under tranid, under tranid and payment_id, under
\* transaction_id
GatewayData ==
    { [tranid |-> "T1", transaction_id |-> NULL, payment_id |-> NULL, status |-> "pending"],
      [tranid |-> "T1", transaction_id |-> NULL, payment_id |-> "T1", status |-> "pending"],
      [tranid |-> NULL, transaction_id |-> "T2", payment_id |-> NULL, status |-> NULL] }

\* ------------------------------------------------- gateway response blobs
\* fastlipa_response JSONB: SQL NULL, the gateway response, {error}, the
\* webhook blob or the callback blob
NoBlob == [kind |-> "null"]
GatewayBlob(d) == [kind |-> "gateway", data |-> d]
ErrorBlob(msg) == [kind |-> "error", error |-> msg]
WebhookBlob(w, tid, st, t) ==
    [kind |-> "webhook", webhookData |-> w, externalPaymentId |-> tid,
     fastlipaStatus |-> st, processedAt |-> t]
CallbackBlob(cb) ==
    [kind |-> "callback", callbackData |-> cb, externalPaymentId |-> cb.paymentId]

\* mutant of BlobPaymentId: the transaction id of the gateway response is
\* taken when it has no payment_id
BlobPaymentId_OrTranId(blob) ==
    IF blob.kind = "gateway"
    THEN (IF blob.data.payment_id # NULL THEN blob.data.payment_id ELSE blob.data.tranid)
    ELSE NULL

\* fastlipaResponse && fastlipaResponse.payment_id : only a gateway response
\* object has a top-level payment_id field
BlobPaymentId(blob) ==
    IF blob.kind = "gateway" THEN blob.data.payment_id ELSE NULL

\* error messages: the chain of prefixes of new Error(`prefix: ${error.message}`)
NoMsg == <<>>
MsgStorage == <<"storage unavailable">>
MsgGateway == <<"Request failed">>
MsgTypeError == <<"TypeError">>
Wrapped(prefix, m) == <<prefix>> \o m
MsgUpdate == Wrapped("Failed to update payment status", MsgStorage)
\* the store's message for a violated UNIQUE constraint
MsgDuplicate == <<"duplicate key value violates unique constraint">>

\* ------------------------------------------------------------------ state
VARIABLES
    payments,       \* table payments, in insertion order (id = position)
    webhook_logs,   \* table webhook_logs, in insertion order
    now,            \* the clock
    webhookCalls,   \* number of requests received by POST /api/payments/webhook
    writes,         \* number of calls of the other status-writing operations
    last,           \* the last call: the operation and what its caller received
    inflight,       \* requests being handled statement by statement:
                    \* the position of each and the locals it holds
    requests        \* the create-transaction requests sent to the gateway, in
                    \* the order in which they were sent

vars == <<payments, webhook_logs, now, webhookCalls, writes, last, inflight, requests>>

NoCall == [op |-> "none"]

Handlers == 1..MaxHandlers

\* a request slot with no request in it
NoBody == [absent |-> TRUE]
Idle ==
    [pc |-> "idle", body |-> NoBody, payment |-> NoId, link |-> NULL,
     previousStatus |-> NULL, at |-> NoTime, outcome |-> "none", error |-> NoMsg]

Init ==
    /\ payments = <<>>
    /\ webhook_logs = <<>>
    /\ now = 1
    /\ webhookCalls = 0
    /\ writes = 0
    /\ last = NoCall
    /\ inflight = [h \in Handlers |-> Idle]
    /\ requests = <<>>

\* rows of payments with the given link id (at most one: UNIQUE)
RowsByLink(ps, linkId) == {i \in DOMAIN ps : ps[i].payment_link_id = linkId}

\* ------------------------------------------------------ generatePaymentLink
\* the row inserted by generatePaymentLink; columns not listed take their
\* defaults
NewPayment(id, token, amount, phoneNumber, t) ==
    [id |-> id, payment_link_id |-> token, amount |-> amount, currency |-> "TZS",
     phone_number |-> phoneNumber, status |-> "pending",
     external_payment_id |-> NULL, fastlipa_response |-> NoBlob,
     created_at |-> t, updated_at |-> t, paid_at |-> NoTime]

\* mutant of GeneratePaymentLink: payment_link_id has no UNIQUE constraint
GeneratePaymentLink_NoUnique(token, amount, phoneNumber, fault) ==
    /\ Len(payments) < MaxPayments
    /\ token = Tokens[Len(payments) + 1] \/ RowsByLink(payments, token) # {}
    /\ LET rejected == fault
           row == NewPayment(Len(payments) + 1, token, amount, phoneNumber, now)
       IN  /\ payments' = IF rejected THEN payments ELSE Append(payments, row)
           /\ last' = [op |-> "generatePaymentLink", threw |-> rejected,
                       error |-> IF fault
                                 THEN Wrapped("Failed to generate payment link", MsgStorage)
                                 ELSE NoMsg,
                       paymentLinkId |-> IF rejected THEN NULL ELSE token]
    /\ UNCHANGED <<webhook_logs, now, webhookCalls, writes, requests>>

\* uuidv4() yields token: a token never drawn before (the next of Tokens) or,
\* improbably, a stored one; the INSERT fails on a storage fault or when the
\* token is already stored (payment_link_id UNIQUE)
GeneratePaymentLink(token, amount, phoneNumber, fault) ==
    /\ Len(payments) < MaxPayments
    /\ token = Tokens[Len(payments) + 1] \/ RowsByLink(payments, token) # {}
    /\ LET collides == RowsByLink(payments, token) # {}
           rejected == fault \/ collides
           row == NewPayment(Len(payments) + 1, token, amount, phoneNumber, now)
       IN  /\ payments' = IF rejected THEN payments ELSE Append(payments, row)
           /\ last' = [op |-> "generatePaymentLink", threw |-> rejected,
                       error |-> IF fault
                                 THEN Wrapped("Failed to generate payment link", MsgStorage)
                                 ELSE IF collides
                                 THEN Wrapped("Failed to generate payment link", MsgDuplicate)
                                 ELSE NoMsg,
                       paymentLinkId |-> IF rejected THEN NULL ELSE token]
    /\ UNCHANGED <<webhook_logs, now, webhookCalls, writes, requests>>

\* -------------------------------------------------------- getPaymentByLinkId
\* the result null, as an empty sequence of rows
NoPayment == <<>>

\* mutant of getPaymentByLinkId: the WHERE clause is missing
getPaymentByLinkId_AnyRow(ps, linkId) ==
    IF ps = <<>> THEN NoPayment ELSE <<ps[1]>>

\* SELECT * FROM payments WHERE payment_link_id = $1: rows[0], or null when
\* there is no row
getPaymentByLinkId(ps, linkId) ==
    IF RowsByLink(ps, linkId) = {} THEN NoPayment
    ELSE <<ps[CHOOSE i \in RowsByLink(ps, linkId) : TRUE]>>

\* a call of the method; fault is a storage fault of the SELECT
GetPaymentByLinkId(linkId, fault) ==
    /\ last' = [op |-> "getPaymentByLinkId", linkId |-> linkId, threw |-> fault,
                payment |-> IF fault THEN NoPayment
                            ELSE getPaymentByLinkId(payments, linkId)]
    /\ UNCHANGED <<payments, webhook_logs, now, webhookCalls, writes, requests>>

\* ------------------------------------------------------ updatePaymentStatus
\* mutant of UpdatedRow: the update also replaces the link id by the
\* identifier the gateway assigned
UpdatedRow_Relinked(p, status, blob, t) ==
    [p EXCEPT !.status = status,
              !.fastlipa_response = blob,
              !.updated_at = t,
              !.paid_at = IF status = "completed" THEN t ELSE @,
              !.payment_link_id =
                  IF BlobPaymentId(blob) # NULL THEN BlobPaymentId(blob) ELSE @,
              !.external_payment_id =
                  IF BlobPaymentId(blob) # NULL THEN BlobPaymentId(blob) ELSE @]

\* mutant of UpdatedRow: paid_at is written by every update
UpdatedRow_AlwaysPaidAt(p, status, blob, t) ==
    [p EXCEPT !.status = status,
              !.fastlipa_response = blob,
              !.updated_at = t,
              !.paid_at = t,
              !.external_payment_id =
                  IF BlobPaymentId(blob) # NULL THEN BlobPaymentId(blob) ELSE @]

\* the UPDATE ... SET of updatePaymentStatus applied to one row
UpdatedRow(p, status, blob, t) ==
    [p EXCEPT !.status = status,
              !.fastlipa_response = blob,
              !.updated_at = t,
              !.paid_at = IF status = "completed" THEN t ELSE @,
              !.external_payment_id =
                  IF BlobPaymentId(blob) # NULL THEN BlobPaymentId(blob) ELSE @]

\* the table after UPDATE payments SET ... WHERE payment_link_id = linkId
updatePaymentStatus(ps, linkId, status, blob, t) ==
    [i \in DOMAIN ps |->
        IF ps[i].payment_link_id = linkId
        THEN UpdatedRow(ps[i], status, blob, t)
        ELSE ps[i]]

\* rows[0] of RETURNING *: the id of the updated row, or NoId (undefined)
UpdateReturns(ps, linkId) ==
    IF RowsByLink(ps, linkId) = {} THEN NoId
    ELSE CHOOSE i \in RowsByLink(ps, linkId) : TRUE

\* a direct call of the public method
UpdatePaymentStatus(linkId, status, blob, fault) ==
    /\ webhookCalls + writes < MaxCalls
    /\ writes' = writes + 1
    /\ payments' = IF fault THEN payments
                   ELSE updatePaymentStatus(payments, linkId, status, blob, now)
    /\ last' = [op |-> "updatePaymentStatus", threw |-> fault,
                row |-> IF fault THEN NoId ELSE UpdateReturns(payments, linkId)]
    /\ UNCHANGED <<webhook_logs, now, webhookCalls, requests>>

\* ---------------------------------------------------------- getPaymentStats
\* SQL NULL for a numeric aggregate, as an empty sequence
NoAmount == <<>>

\* SUM(CASE WHEN status = 'completed' THEN amount ELSE 0 END) over the rows
\* of a non-empty table
RECURSIVE SumCompleted(_)
SumCompleted(ps) ==
    IF ps = <<>> THEN 0
    ELSE (IF Head(ps).status = "completed" THEN Head(ps).amount ELSE 0)
         + SumCompleted(Tail(ps))

\* COUNT(CASE WHEN status = s THEN 1 END)
CountStatus(ps, s) == Cardinality({i \in DOMAIN ps : ps[i].status = s})

\* the one row of the aggregate query; SUM over no rows is NULL
getPaymentStats(ps) ==
    [total_payments |-> Len(ps),
     total_amount |-> IF ps = <<>> THEN NoAmount ELSE <<SumCompleted(ps)>>,
     completed_payments |-> CountStatus(ps, "completed"),
     pending_payments |-> CountStatus(ps, "pending"),
     failed_payments |-> CountStatus(ps, "failed")]

\* a call of the method; fault is a storage fault of the SELECT
GetPaymentStats(fault) ==
    /\ last' = IF fault
               THEN [op |-> "getPaymentStats", threw |-> TRUE,
                     error |-> Wrapped("Failed to fetch payment statistics", MsgStorage)]
               ELSE [op |-> "getPaymentStats", threw |-> FALSE,
                     stats |-> getPaymentStats(payments)]
    /\ UNCHANGED <<payments, webhook_logs, now, webhookCalls, writes, requests>>

\* --------------------------------------------------------------- the clock
Tick ==
    /\ now < MaxTime
    /\ now' = now + 1
    /\ UNCHANGED <<payments, webhook_logs, webhookCalls, writes, last, requests>>

\* ----------------------------------------------------------- processPayment
\* outcome of axios.post: a thrown error (network, non-2xx), a 2xx response
\* whose body is JSON null, or a 2xx response whose body is an object
GatewayOutcomes ==
    {[kind |-> "error"], [kind |-> "null"]} \cup {[kind |-> "ok", data |-> d] : d \in GatewayData}

\* the error caught by the catch block of processPayment, NoMsg if none;
\* fault1 is a storage fault of the update to processing
ProcessError(phoneNumber, gw, fault1) ==
    IF phoneNumber = NULL THEN MsgTypeError
    ELSE IF gw.kind = "error" THEN MsgGateway
    ELSE IF fault1 THEN MsgUpdate
    ELSE IF gw.kind = "null" THEN MsgTypeError
    ELSE NoMsg

\* whether the update to processing was committed
ProcessingWritten(phoneNumber, gw, fault1) ==
    phoneNumber # NULL /\ gw.kind # "error" /\ ~fault1

\* response.data.tranid || response.data.transaction_id
ResponseTranId(d) == IF d.tranid # NULL THEN d.tranid ELSE d.transaction_id

\* mutant of ProcessingWrite: the gateway response is not passed on
ProcessingWrite_NoBlob(ps, linkId, gw, t) ==
    updatePaymentStatus(ps, linkId, "processing", NoBlob, t)

\* mutant of FailedWrite: the catch block rethrows without recording the
\* failure
FailedWrite_Skipped(ps, linkId, err, t) == ps

\* try block: updatePaymentStatus(paymentLinkId, 'processing', response.data)
ProcessingWrite(ps, linkId, gw, t) ==
    updatePaymentStatus(ps, linkId, "processing",
                        IF gw.kind = "ok" THEN GatewayBlob(gw.data) ELSE NoBlob, t)

\* mutant of FailedWrite: a failure of the status update is not recorded on
\* the payment
FailedWrite_NotForUpdateErrors(ps, linkId, err, t) ==
    IF err = MsgUpdate THEN ps
    ELSE updatePaymentStatus(ps, linkId, "failed", ErrorBlob(err), t)

\* catch block: updatePaymentStatus(paymentLinkId, 'failed', {error: error.message})
FailedWrite(ps, linkId, err, t) ==
    updatePaymentStatus(ps, linkId, "failed", ErrorBlob(err), t)

\* the characters of a phone number
PhoneChars(phone) ==
    CASE phone = "712345678" -> <<"7","1","2","3","4","5","6","7","8">>
      [] phone = "0712345678" -> <<"0","7","1","2","3","4","5","6","7","8">>
      [] phone = "255712345678" -> <<"2","5","5","7","1","2","3","4","5","6","7","8">>
      [] phone = "0255712345" -> <<"0","2","5","5","7","1","2","3","4","5">>
      [] phone = "2550712345" -> <<"2","5","5","0","7","1","2","3","4","5">>
      [] phone = "255255712" -> <<"2","5","5","2","5","5","7","1","2">>
      [] phone = "25" -> <<"2","5">>
      [] phone = "255" -> <<"2","5","5">>

\* String.prototype.startsWith
startsWith(s, prefix) ==
    Len(s) >= Len(prefix) /\ SubSeq(s, 1, Len(prefix)) = prefix

\* String.prototype.substring(start): the characters from index start (0-based)
substring(s, start) == SubSeq(s, start + 1, Len(s))

\* mutant of localPhoneNumber: the calling code is also stripped after a
\* leading 0
localPhoneNumber_AfterZero(chars) ==
    IF startsWith(chars, <<"2","5","5">>) THEN substring(chars, 3)
    ELSE IF startsWith(chars, <<"0","2","5","5">>) THEN substring(chars, 4)
    ELSE chars

\* phoneNumber.startsWith('255') ? phoneNumber.substring(3) : phoneNumber
localPhoneNumber(chars) ==
    IF startsWith(chars, <<"2","5","5">>) THEN substring(chars, 3) ELSE chars

\* mutant of RoundAmount: the decimals are cut off (parseInt)
RoundAmount_Truncated(amount) == amount \div 100

\* Math.round(parseFloat(amount)) of an amount in hundredths: the nearest
\* whole number, a half rounded up
RoundAmount(amount) == (amount + 50) \div 100

\* the body of the create-transaction request (name is passed on as given)
paymentPayload(phoneNumber, amount) ==
    [number |-> localPhoneNumber(PhoneChars(phoneNumber)), amount |-> RoundAmount(amount)]

\* mutant of ProcessPayment: no request is sent for a payment that is
\* already processing or completed
ProcessPayment_Idempotent(linkId, phoneNumber, amount, gw, fault1, fault2) ==
    LET err == ProcessError(phoneNumber, gw, fault1)
        ps1 == IF ProcessingWritten(phoneNumber, gw, fault1)
               THEN ProcessingWrite(payments, linkId, gw, now)
               ELSE payments
        failed == err # NoMsg
    IN  /\ webhookCalls + writes < MaxCalls
        /\ writes' = writes + 1
        /\ payments' =
              IF failed /\ ~fault2 THEN FailedWrite(ps1, linkId, err, now) ELSE ps1
        /\ last' = [op |-> "processPayment", threw |-> failed,
                    error |-> IF ~failed THEN NoMsg
                              ELSE IF fault2 THEN MsgUpdate
                              ELSE Wrapped("Payment processing failed", err),
                    success |-> ~failed,
                    paymentId |-> IF failed THEN NULL ELSE ResponseTranId(gw.data)]
        /\ requests' =
              IF phoneNumber = NULL
                 \/ \E i \in DOMAIN payments :
                       /\ payments[i].payment_link_id = linkId
                       /\ payments[i].status \in {"processing", "completed"}
              THEN requests
              ELSE Append(requests, paymentPayload(phoneNumber, amount))
        /\ UNCHANGED <<webhook_logs, now, webhookCalls>>

\* paymentData = {paymentLinkId: linkId, phoneNumber, amount}; fault2 is a
\* storage fault of the update to failed in the catch block
ProcessPayment(linkId, phoneNumber, amount, gw, fault1, fault2) ==
    LET err == ProcessError(phoneNumber, gw, fault1)
        ps1 == IF ProcessingWritten(phoneNumber, gw, fault1)
               THEN ProcessingWrite(payments, linkId, gw, now)
               ELSE payments
        failed == err # NoMsg
    IN  /\ webhookCalls + writes < MaxCalls
        /\ writes' = writes + 1
        /\ payments' =
              IF failed /\ ~fault2 THEN FailedWrite(ps1, linkId, err, now) ELSE ps1
        /\ last' = [op |-> "processPayment", threw |-> failed,
                    error |-> IF ~failed THEN NoMsg
                              ELSE IF fault2 THEN MsgUpdate
                              ELSE Wrapped("Payment processing failed", err),
                    success |-> ~failed,
                    paymentId |-> IF failed THEN NULL ELSE ResponseTranId(gw.data)]
        /\ requests' = IF phoneNumber = NULL THEN requests
                       ELSE Append(requests, paymentPayload(phoneNumber, amount))
        /\ UNCHANGED <<webhook_logs, now, webhookCalls>>

\* ---------------------------------------------------- handleFastlipaWebhook
\* a webhook body: the fields the reconciler reads; a key that is absent is
\* NULL (Absent for status and state)
Payload(tranid, transaction_id, id, status, state, amount, number, phone_number, timestamp) ==
    [tranid |-> tranid, transaction_id |-> transaction_id, id |-> id,
     status |-> status, state |-> state, amount |-> amount,
     number |-> number, phone_number |-> phone_number, timestamp |-> timestamp]

\* req.body is undefined or {}
EmptyBody == Payload(NULL, NULL, NULL, Absent, Absent, NULL, NULL, NULL, NULL)

\* tranid, then transaction_id, then id
ExtractTransactionId(w) ==
    IF w.tranid # NULL THEN w.tranid
    ELSE IF w.transaction_id # NULL THEN w.transaction_id
    ELSE IF w.id # NULL THEN w.id
    ELSE NULL

\* number, then phone_number
ExtractPhoneNumber(w) ==
    IF w.number # NULL THEN w.number
    ELSE IF w.phone_number # NULL THEN w.phone_number
    ELSE NULL

\* the field whose toLowerCase is called: status, then state
StatusField(w) ==
    IF Truthy(w.status) THEN w.status
    ELSE IF Truthy(w.state) THEN w.state
    ELSE Absent

\* .toLowerCase is not a function: the chosen field is truthy but no string
StatusThrows(w) == Truthy(StatusField(w)) /\ ~IsString(StatusField(w))

\* status, then state, lower-cased; 'unknown' when neither is present
ExtractStatus(w) ==
    IF Truthy(StatusField(w)) THEN toLowerCase(StatusField(w).val) ELSE w_unknown

\* mutant of MapStatus: cancelled and canceled map to cancelled
MapStatus_Cancelled(status) ==
    IF status \in {w_success, w_successful, w_completed, w_paid} THEN "completed"
    ELSE IF status \in {w_failed, w_error} THEN "failed"
    ELSE IF status \in {w_cancelled, w_canceled} THEN "cancelled"
    ELSE IF status \in {w_pending, w_processing, w_initiated} THEN "processing"
    ELSE "pending"

\* mutant of MapStatus: a status the switch does not list is stored as
\* "unknown"
MapStatus_UnknownDefault(status) ==
    IF status \in {w_success, w_successful, w_completed, w_paid} THEN "completed"
    ELSE IF status \in {w_failed, w_error, w_cancelled, w_canceled} THEN "failed"
    ELSE IF status \in {w_pending, w_processing, w_initiated} THEN "processing"
    ELSE "unknown"

\* the switch that maps the Fastlipa status to the internal status
MapStatus(status) ==
    IF status \in {w_success, w_successful, w_completed, w_paid} THEN "completed"
    ELSE IF status \in {w_failed, w_error, w_cancelled, w_canceled} THEN "failed"
    ELSE IF status \in {w_pending, w_processing, w_initiated} THEN "processing"
    ELSE "pending"

\* SELECT * FROM payments WHERE external_payment_id = $1 (no ORDER BY: rows[0]
\* is any of the rows)
Query1Rows(ps, transactionId) ==
    {i \in DOMAIN ps : ps[i].external_payment_id = transactionId}

\* mutant of Query2Rows: the one-hour window is missing
Query2Rows_NoWindow(ps, phoneNumber, t) ==
    LET any == {i \in DOMAIN ps : ps[i].phone_number = phoneNumber}
    IN  {i \in any : \A j \in any : ps[j].created_at <= ps[i].created_at}

\* mutant of Query2Rows: ORDER BY created_at ASC
Query2Rows_Oldest(ps, phoneNumber, t) ==
    LET recent == {i \in DOMAIN ps :
                      /\ ps[i].phone_number = phoneNumber
                      /\ ps[i].created_at > t - Hour}
    IN  {i \in recent : \A j \in recent : ps[j].created_at >= ps[i].created_at}

\* SELECT ... WHERE phone_number = $1 AND created_at > NOW() - INTERVAL '1 hour'
\* ORDER BY created_at DESC LIMIT 1 (rows that tie on created_at come in any
\* order)
Query2Rows(ps, phoneNumber, t) ==
    LET recent == {i \in DOMAIN ps :
                      /\ ps[i].phone_number = phoneNumber
                      /\ ps[i].created_at > t - Hour}
    IN  {i \in recent : \A j \in recent : ps[j].created_at <= ps[i].created_at}

\* mutant of logWebhookData: rows of the error path are not written
logWebhookData_DropErrors(logs, webhookData, status, paymentId, error, logFault) ==
    IF logFault \/ status = "error" THEN logs
    ELSE Append(logs, [payment_id |-> paymentId, webhook_data |-> webhookData,
                       status |-> status, error_message |-> error])

\* mutant of logWebhookData: one row is kept per payment reference, a later
\* delivery replaces it
logWebhookData_Upsert(logs, webhookData, status, paymentId, error, logFault) ==
    LET row == [payment_id |-> paymentId, webhook_data |-> webhookData,
                status |-> status, error_message |-> error]
        same == {i \in DOMAIN logs : logs[i].payment_id = paymentId}
    IN  IF logFault THEN logs
        ELSE IF same = {} THEN Append(logs, row)
        ELSE [i \in DOMAIN logs |-> IF i \in same THEN row ELSE logs[i]]

\* INSERT INTO webhook_logs; a failure of the insert is caught and dropped
logWebhookData(logs, webhookData, status, paymentId, error, logFault) ==
    IF logFault THEN logs
    ELSE Append(logs, [payment_id |-> paymentId, webhook_data |-> webhookData,
                       status |-> status, error_message |-> error])

\* mutant of WebhookError: the error row is written without the message
WebhookError_NoMessage(ps, logs, w, error, logFault) ==
    [payments |-> ps,
     webhook_logs |-> logWebhookData(logs, w, "error", NoId, NoMsg, logFault),
     threw |-> TRUE, error |-> error, outcome |-> "error", success |-> FALSE,
     paymentId |-> NoId, previousStatus |-> NULL, newStatus |-> NULL]

\* the catch block: log the error, rethrow it
WebhookError(ps, logs, w, error, logFault) ==
    [payments |-> ps,
     webhook_logs |-> logWebhookData(logs, w, "error", NoId, error, logFault),
     threw |-> TRUE, error |-> error, outcome |-> "error", success |-> FALSE,
     paymentId |-> NoId, previousStatus |-> NULL, newStatus |-> NULL]

\* no payment found
WebhookNoMatch(ps, logs, w, logFault) ==
    [payments |-> ps,
     webhook_logs |-> logWebhookData(logs, w, "no_matching_payment", NoId, NoMsg, logFault),
     threw |-> FALSE, error |-> NoMsg, outcome |-> "no_matching_payment",
     success |-> FALSE,
     paymentId |-> NoId, previousStatus |-> NULL, newStatus |-> NULL]

\* mutant of WebhookMatched: the update is performed also when the status is
\* already the normalized one
WebhookMatched_AlwaysUpdate(ps, logs, t, w, i, fault, logFault) ==
    LET transactionId == ExtractTransactionId(w)
        status == ExtractStatus(w)
        internalStatus == MapStatus(status)
        blob == WebhookBlob(w, transactionId, status, t)
    IN  IF fault = "update"
        THEN WebhookError(ps, logs, w, MsgUpdate, logFault)
        ELSE [payments |-> updatePaymentStatus(ps, ps[i].payment_link_id, internalStatus, blob, t),
              webhook_logs |-> logWebhookData(logs, w, "processed", ps[i].id, NoMsg, logFault),
              threw |-> FALSE, error |-> NoMsg, outcome |-> "processed",
              success |-> TRUE,
              paymentId |-> ps[i].id, previousStatus |-> ps[i].status,
              newStatus |-> internalStatus]

\* mutant of WebhookMatched: a failure of the processed log insert is not
\* caught and the call throws
WebhookMatched_LogThrows(ps, logs, t, w, i, fault, logFault) ==
    LET transactionId == ExtractTransactionId(w)
        status == ExtractStatus(w)
        internalStatus == MapStatus(status)
        differs == ps[i].status # internalStatus
        blob == WebhookBlob(w, transactionId, status, t)
        ps1 == IF differs
               THEN updatePaymentStatus(ps, ps[i].payment_link_id, internalStatus, blob, t)
               ELSE ps
    IN  IF differs /\ fault = "update"
        THEN WebhookError(ps, logs, w, MsgUpdate, logFault)
        ELSE IF logFault
        THEN WebhookError(ps1, logs, w, MsgStorage, logFault)
        ELSE [payments |-> ps1,
              webhook_logs |-> logWebhookData(logs, w, "processed", ps[i].id, NoMsg, logFault),
              threw |-> FALSE, error |-> NoMsg, outcome |-> "processed",
              success |-> TRUE,
              paymentId |-> ps[i].id, previousStatus |-> ps[i].status,
              newStatus |-> internalStatus]

\* mutant of WebhookMatched: the audit row references the payment only when
\* the delivery changed its status
WebhookMatched_ReferenceOnChange(ps, logs, t, w, i, fault, logFault) ==
    LET transactionId == ExtractTransactionId(w)
        status == ExtractStatus(w)
        internalStatus == MapStatus(status)
        differs == ps[i].status # internalStatus
        blob == WebhookBlob(w, transactionId, status, t)
        ps1 == IF differs
               THEN updatePaymentStatus(ps, ps[i].payment_link_id, internalStatus, blob, t)
               ELSE ps
    IN  IF differs /\ fault = "update"
        THEN WebhookError(ps, logs, w, MsgUpdate, logFault)
        ELSE [payments |-> ps1,
              webhook_logs |-> logWebhookData(logs, w, "processed",
                                              IF differs THEN ps[i].id ELSE NoId,
                                              NoMsg, logFault),
              threw |-> FALSE, error |-> NoMsg, outcome |-> "processed",
              success |-> TRUE,
              paymentId |-> ps[i].id, previousStatus |-> ps[i].status,
              newStatus |-> internalStatus]

\* payment ps[i] found: update it when its status differs, log, return
WebhookMatched(ps, logs, t, w, i, fault, logFault) ==
    LET transactionId == ExtractTransactionId(w)
        status == ExtractStatus(w)
        internalStatus == MapStatus(status)
        differs == ps[i].status # internalStatus
        blob == WebhookBlob(w, transactionId, status, t)
        ps1 == IF differs
               THEN updatePaymentStatus(ps, ps[i].payment_link_id, internalStatus, blob, t)
               ELSE ps
    IN  IF differs /\ fault = "update"
        THEN WebhookError(ps, logs, w, MsgUpdate, logFault)
        ELSE [payments |-> ps1,
              webhook_logs |-> logWebhookData(logs, w, "processed", ps[i].id, NoMsg, logFault),
              threw |-> FALSE, error |-> NoMsg, outcome |-> "processed",
              success |-> TRUE,
              paymentId |-> ps[i].id, previousStatus |-> ps[i].status,
              newStatus |-> internalStatus]

\* the possible outcomes of one call; fault names the storage statement that
\* fails ("none", "query1", "query2", "update"), logFault the log insert
handleFastlipaWebhook(ps, logs, t, w, fault, logFault) ==
    LET transactionId == ExtractTransactionId(w)
        phoneNumber == ExtractPhoneNumber(w)
        byExtId == IF transactionId # NULL THEN Query1Rows(ps, transactionId) ELSE {}
        byPhone == Query2Rows(ps, phoneNumber, t)
    IN  IF StatusThrows(w)
        THEN {WebhookError(ps, logs, w, MsgTypeError, logFault)}
        ELSE IF transactionId # NULL /\ fault = "query1"
        THEN {WebhookError(ps, logs, w, MsgStorage, logFault)}
        ELSE IF byExtId # {}
        THEN {WebhookMatched(ps, logs, t, w, i, fault, logFault) : i \in byExtId}
        ELSE IF phoneNumber = NULL
        THEN {WebhookNoMatch(ps, logs, w, logFault)}
        ELSE IF fault = "query2"
        THEN {WebhookError(ps, logs, w, MsgStorage, logFault)}
        ELSE IF byPhone # {}
        THEN {WebhookMatched(ps, logs, t, w, i, fault, logFault) : i \in byPhone}
        ELSE {WebhookNoMatch(ps, logs, w, logFault)}

WebhookFaults == {"none", "query1", "query2", "update"}

\* ------------------------------------------------ POST /api/payments/webhook
\* the route: 400 on an empty body, else the reconciler; 200 when it reports
\* success, 400 when it does not, 500 when it throws
WebhookEndpoint(body, fault, logFault) ==
    /\ webhookCalls + writes < MaxCalls
    /\ webhookCalls' = webhookCalls + 1
    /\ IF body = EmptyBody
       THEN /\ last' = [op |-> "webhook", http |-> 400, outcome |-> "empty",
                        threw |-> FALSE, success |-> FALSE, details |-> NoMsg]
            /\ UNCHANGED <<payments, webhook_logs>>
       ELSE \E r \in handleFastlipaWebhook(payments, webhook_logs, now, body, fault, logFault) :
            /\ payments' = r.payments
            /\ webhook_logs' = r.webhook_logs
            /\ last' = [op |-> "webhook",
                        http |-> IF r.threw THEN 500 ELSE IF r.success THEN 200 ELSE 400,
                        outcome |-> r.outcome, threw |-> r.threw,
                        success |-> r.success, details |-> r.error]
    /\ UNCHANGED <<now, writes, requests>>

\* ------------------------------- the webhook request, statement by statement
\* handleFastlipaWebhook is an async function: it runs without interruption up
\* to an await of pool.query, and other requests run while it waits.  Each
\* action below is one statement of the database together with the
\* synchronous code that follows it up to the next await.

\* the synchronous code after a lookup returned payments[i]
WebhookFound(r, i) ==
    [r EXCEPT !.payment = payments[i].id,
              !.link = payments[i].payment_link_id,
              !.previousStatus = payments[i].status,
              !.at = now,
              !.outcome = "processed",
              !.pc = IF payments[i].status # MapStatus(ExtractStatus(r.body))
                     THEN "update" ELSE "log"]

\* no payment: log for manual processing
WebhookNotFound(r) == [r EXCEPT !.outcome = "no_matching_payment", !.pc = "log"]

\* a statement threw: the catch block logs the error
WebhookCaught(r, msg) == [r EXCEPT !.outcome = "error", !.error = msg, !.pc = "log"]

\* the route receives a request; extraction and status mapping run at once
WebhookReceive(h, body) ==
    /\ webhookCalls + writes < MaxCalls
    /\ inflight[h].pc = "idle"
    /\ webhookCalls' = webhookCalls + 1
    /\ IF body = EmptyBody
       THEN /\ inflight' = [inflight EXCEPT ![h] = [Idle EXCEPT !.pc = "done", !.outcome = "empty"]]
            /\ last' = [op |-> "webhook", http |-> 400, outcome |-> "empty",
                        threw |-> FALSE, success |-> FALSE, details |-> NoMsg]
       ELSE LET r == [Idle EXCEPT !.body = body]
            IN  /\ inflight' = [inflight EXCEPT ![h] =
                       IF StatusThrows(body) THEN WebhookCaught(r, MsgTypeError)
                       ELSE IF ExtractTransactionId(body) # NULL THEN [r EXCEPT !.pc = "query1"]
                       ELSE IF ExtractPhoneNumber(body) # NULL THEN [r EXCEPT !.pc = "query2"]
                       ELSE WebhookNotFound(r)]
                /\ UNCHANGED last
    /\ UNCHANGED <<payments, webhook_logs, now, writes, requests>>

\* await pool.query(query1)
WebhookQuery1(h, fault) ==
    LET r == inflight[h]
        rows == Query1Rows(payments, ExtractTransactionId(r.body))
    IN  /\ r.pc = "query1"
        /\ IF fault THEN inflight' = [inflight EXCEPT ![h] = WebhookCaught(r, MsgStorage)]
           ELSE IF rows # {}
           THEN \E i \in rows : inflight' = [inflight EXCEPT ![h] = WebhookFound(r, i)]
           ELSE inflight' = [inflight EXCEPT ![h] =
                    IF ExtractPhoneNumber(r.body) # NULL THEN [r EXCEPT !.pc = "query2"]
                    ELSE WebhookNotFound(r)]
        /\ UNCHANGED <<payments, webhook_logs, now, webhookCalls, writes, last, requests>>

\* await pool.query(query2)
WebhookQuery2(h, fault) ==
    LET r == inflight[h]
        rows == Query2Rows(payments, ExtractPhoneNumber(r.body), now)
    IN  /\ r.pc = "query2"
        /\ IF fault THEN inflight' = [inflight EXCEPT ![h] = WebhookCaught(r, MsgStorage)]
           ELSE IF rows # {}
           THEN \E i \in rows : inflight' = [inflight EXCEPT ![h] = WebhookFound(r, i)]
           ELSE inflight' = [inflight EXCEPT ![h] = WebhookNotFound(r)]
        /\ UNCHANGED <<payments, webhook_logs, now, webhookCalls, writes, last, requests>>

\* mutant of WebhookUpdate: the UPDATE applies only while the row still has
\* the status that was read (an optimistic lock)
WebhookUpdate_Guarded(h, fault) ==
    LET r == inflight[h]
        status == ExtractStatus(r.body)
        blob == WebhookBlob(r.body, ExtractTransactionId(r.body), status, r.at)
    IN  /\ r.pc = "update"
        /\ payments' =
              IF fault THEN payments
              ELSE [i \in DOMAIN payments |->
                      IF payments[i].payment_link_id = r.link
                         /\ payments[i].status = r.previousStatus
                      THEN [UpdatedRow(payments[i], MapStatus(status), blob, r.at)
                               EXCEPT !.updated_at = now]
                      ELSE payments[i]]
        /\ inflight' = [inflight EXCEPT ![h] =
                           IF fault THEN WebhookCaught(r, MsgUpdate) ELSE [r EXCEPT !.pc = "log"]]
        /\ UNCHANGED <<webhook_logs, now, webhookCalls, writes, last, requests>>

\* mutant of WebhookUpdate: a failure of the UPDATE is swallowed and the
\* delivery goes on to its processed row
WebhookUpdate_FaultIgnored(h, fault) ==
    LET r == inflight[h]
        status == ExtractStatus(r.body)
        blob == WebhookBlob(r.body, ExtractTransactionId(r.body), status, r.at)
    IN  /\ r.pc = "update"
        /\ payments' =
              IF fault THEN payments
              ELSE [i \in DOMAIN payments |->
                      IF payments[i].payment_link_id = r.link
                      THEN [UpdatedRow(payments[i], MapStatus(status), blob, r.at)
                               EXCEPT !.updated_at = now]
                      ELSE payments[i]]
        /\ inflight' = [inflight EXCEPT ![h] = [r EXCEPT !.pc = "log"]]
        /\ UNCHANGED <<webhook_logs, now, webhookCalls, writes, last, requests>>

\* await updatePaymentStatus(...): the UPDATE commits.  The blob and paid_at
\* carry the time at which the call was made; updated_at is set by the trigger
\* when the statement runs
WebhookUpdate(h, fault) ==
    LET r == inflight[h]
        status == ExtractStatus(r.body)
        blob == WebhookBlob(r.body, ExtractTransactionId(r.body), status, r.at)
    IN  /\ r.pc = "update"
        /\ payments' =
              IF fault THEN payments
              ELSE [i \in DOMAIN payments |->
                      IF payments[i].payment_link_id = r.link
                      THEN [UpdatedRow(payments[i], MapStatus(status), blob, r.at)
                               EXCEPT !.updated_at = now]
                      ELSE payments[i]]
        /\ inflight' = [inflight EXCEPT ![h] =
                           IF fault THEN WebhookCaught(r, MsgUpdate) ELSE [r EXCEPT !.pc = "log"]]
        /\ UNCHANGED <<webhook_logs, now, webhookCalls, writes, last, requests>>

\* mutant of WebhookLog: a delivery whose row the log already holds is not
\* logged again
WebhookLog_Deduplicated(h, logFault) ==
    LET r == inflight[h]
        paymentId == IF r.outcome = "processed" THEN r.payment ELSE NoId
        duplicate == \E k \in DOMAIN webhook_logs :
                        /\ webhook_logs[k].webhook_data = r.body
                        /\ webhook_logs[k].payment_id = paymentId
                        /\ webhook_logs[k].status = r.outcome
    IN  /\ r.pc = "log"
        /\ webhook_logs' =
              IF duplicate THEN webhook_logs
              ELSE logWebhookData(webhook_logs, r.body, r.outcome, paymentId, r.error, logFault)
        /\ inflight' = [inflight EXCEPT ![h].pc = "done"]
        /\ last' = [op |-> "webhook",
                    http |-> IF r.outcome = "error" THEN 500
                             ELSE IF r.outcome = "processed" THEN 200 ELSE 400,
                    outcome |-> r.outcome, threw |-> r.outcome = "error",
                    success |-> r.outcome = "processed", details |-> r.error]
        /\ UNCHANGED <<payments, now, webhookCalls, writes, requests>>

\* await logWebhookData(...), then the return or the rethrow and the answer of
\* the route
WebhookLog(h, logFault) ==
    LET r == inflight[h]
        paymentId == IF r.outcome = "processed" THEN r.payment ELSE NoId
    IN  /\ r.pc = "log"
        /\ webhook_logs' =
              logWebhookData(webhook_logs, r.body, r.outcome, paymentId, r.error, logFault)
        /\ inflight' = [inflight EXCEPT ![h].pc = "done"]
        /\ last' = [op |-> "webhook",
                    http |-> IF r.outcome = "error" THEN 500
                             ELSE IF r.outcome = "processed" THEN 200 ELSE 400,
                    outcome |-> r.outcome, threw |-> r.outcome = "error",
                    success |-> r.outcome = "processed", details |-> r.error]
        /\ UNCHANGED <<payments, now, webhookCalls, writes, requests>>

\* ------------------------------------------- processPayment, step by step
\* a call of processPayment up to the answer of axios.post: the request is on
\* its way, the locals are the link id, the gateway's answer and the time at
\* which the request was sent
ProcessSend(h, linkId, phoneNumber, amount, gw) ==
    /\ webhookCalls + writes < MaxCalls
    /\ inflight[h].pc = "idle"
    /\ writes' = writes + 1
    /\ requests' = IF phoneNumber = NULL THEN requests
                   ELSE Append(requests, paymentPayload(phoneNumber, amount))
    /\ inflight' = [inflight EXCEPT ![h] =
           [Idle EXCEPT !.link = linkId,
                        !.body = gw,
                        !.at = now,
                        !.pc = IF phoneNumber = NULL \/ gw.kind = "error"
                               THEN "catch" ELSE "store",
                        !.error = IF phoneNumber = NULL THEN MsgTypeError
                                  ELSE IF gw.kind = "error" THEN MsgGateway
                                  ELSE NoMsg]]
    /\ UNCHANGED <<payments, webhook_logs, now, webhookCalls, last>>

\* mutant of ProcessStore: the update to processing applies only to a payment
\* that is still pending
ProcessStore_OnlyPending(h, fault1) ==
    LET r == inflight[h]
        after == IF r.body.kind = "null" THEN "catch" ELSE "done"
    IN  /\ r.pc = "store"
        /\ payments' =
              IF fault1 THEN payments
              ELSE [i \in DOMAIN payments |->
                      IF payments[i].payment_link_id = r.link /\ payments[i].status = "pending"
                      THEN ProcessingWrite(payments, r.link, r.body, now)[i]
                      ELSE payments[i]]
        /\ inflight' = [inflight EXCEPT ![h] =
               IF fault1 THEN [r EXCEPT !.pc = "catch", !.error = MsgUpdate]
               ELSE IF after = "catch" THEN [r EXCEPT !.pc = "catch", !.error = MsgTypeError]
               ELSE [r EXCEPT !.pc = "done"]]
        /\ last' = IF ~fault1 /\ after = "done"
                   THEN [op |-> "processPayment", threw |-> FALSE, error |-> NoMsg,
                         success |-> TRUE, paymentId |-> ResponseTranId(r.body.data)]
                   ELSE last
        /\ UNCHANGED <<webhook_logs, now, webhookCalls, writes, requests>>

\* await updatePaymentStatus(paymentLinkId, 'processing', response.data), then
\* the return, which reads response.data.tranid
ProcessStore(h, fault1) ==
    LET r == inflight[h]
        after == IF r.body.kind = "null" THEN "catch" ELSE "done"
    IN  /\ r.pc = "store"
        /\ payments' = IF fault1 THEN payments
                       ELSE ProcessingWrite(payments, r.link, r.body, now)
        /\ inflight' = [inflight EXCEPT ![h] =
               IF fault1 THEN [r EXCEPT !.pc = "catch", !.error = MsgUpdate]
               ELSE IF after = "catch" THEN [r EXCEPT !.pc = "catch", !.error = MsgTypeError]
               ELSE [r EXCEPT !.pc = "done"]]
        /\ last' = IF ~fault1 /\ after = "done"
                   THEN [op |-> "processPayment", threw |-> FALSE, error |-> NoMsg,
                         success |-> TRUE, paymentId |-> ResponseTranId(r.body.data)]
                   ELSE last
        /\ UNCHANGED <<webhook_logs, now, webhookCalls, writes, requests>>

\* the catch block: await updatePaymentStatus(paymentLinkId, 'failed', ...),
\* then the throw
ProcessCatch(h, fault2) ==
    LET r == inflight[h]
    IN  /\ r.pc = "catch"
        /\ payments' = IF fault2 THEN payments
                       ELSE FailedWrite(payments, r.link, r.error, now)
        /\ inflight' = [inflight EXCEPT ![h].pc = "done"]
        /\ last' = [op |-> "processPayment", threw |-> TRUE,
                    error |-> IF fault2 THEN MsgUpdate
                              ELSE Wrapped("Payment processing failed", r.error),
                    success |-> FALSE, paymentId |-> NULL]
        /\ UNCHANGED <<webhook_logs, now, webhookCalls, writes, requests>>

\* ---------------------------------------------------- handlePaymentCallback
\* mutant of CallbackStatus: the default branch is the reconciler's (pending)
CallbackStatus_PendingDefault(status) ==
    LET s == IF IsString(status) THEN toLowerCase(status.val) ELSE <<>>
    IN  IF s \in {w_success, w_completed} THEN "completed"
        ELSE IF s = w_failed THEN "failed"
        ELSE IF s = w_cancelled THEN "cancelled"
        ELSE "pending"

\* the switch of the legacy callback on status?.toLowerCase()
CallbackStatus(status) ==
    LET s == IF IsString(status) THEN toLowerCase(status.val) ELSE <<>>
    IN  IF s \in {w_success, w_completed} THEN "completed"
        ELSE IF s = w_failed THEN "failed"
        ELSE IF s = w_cancelled THEN "cancelled"
        ELSE "processing"

\* status?.toLowerCase() throws when status is neither null/undefined nor a
\* string
CallbackThrows(status) == status.type = "number"

\* mutant of HandlePaymentCallback: the callback is written to the audit log
HandlePaymentCallback_Logged(cb, fault) ==
    LET typeError == CallbackThrows(cb.status)
        failed == typeError \/ fault
    IN  /\ webhookCalls + writes < MaxCalls
        /\ writes' = writes + 1
        /\ payments' =
              IF failed THEN payments
              ELSE updatePaymentStatus(payments, cb.paymentReference,
                                       CallbackStatus(cb.status), CallbackBlob(cb), now)
        /\ webhook_logs' =
              Append(webhook_logs,
                     [payment_id |-> NoId, webhook_data |-> NoBody,
                      status |-> "processed", error_message |-> NoMsg])
        /\ last' = [op |-> "handlePaymentCallback", threw |-> failed,
                    success |-> ~failed]
        /\ UNCHANGED <<now, webhookCalls, requests>>

\* a call of the legacy callback; fault is a storage fault of the update
HandlePaymentCallback(cb, fault) ==
    LET typeError == CallbackThrows(cb.status)
        failed == typeError \/ fault
    IN  /\ webhookCalls + writes < MaxCalls
        /\ writes' = writes + 1
        /\ payments' =
              IF failed THEN payments
              ELSE updatePaymentStatus(payments, cb.paymentReference,
                                       CallbackStatus(cb.status), CallbackBlob(cb), now)
        /\ last' = [op |-> "handlePaymentCallback", threw |-> failed,
                    success |-> ~failed]
        /\ UNCHANGED <<webhook_logs, now, webhookCalls, requests>>

\* ------------------------------------------------------------------ inputs
\* webhook bodies: matched by transaction id, by phone, by either; a status
\* of the table in several spellings, an unlisted word, a number; the
\* fallback keys; none of the known keys
Payloads ==
    { Payload("T1", NULL, NULL, Str(w_success), Absent, "1000", "712345678", NULL, "ts"),
      Payload(NULL, NULL, NULL, Str(UpperCased(w_failed)), Absent, "1000", "712345678", NULL, NULL),
      Payload("T1", NULL, NULL, Str(w_weird), Absent, NULL, NULL, NULL, NULL),
      Payload(NULL, NULL, NULL, Num(<<"2","0","0">>), Absent, NULL, "712345678", NULL, NULL),
      Payload(NULL, "T1", "T2", Str(<<>>), Str(UpperCased(w_paid)), NULL, NULL, "712345678", NULL),
      Payload(NULL, NULL, NULL, Absent, Absent, NULL, NULL, NULL, "ts") }

Callbacks ==
    { [paymentReference |-> l, status |-> s, paymentId |-> "T1"] :
        l \in LinkIds \cup {UnknownLink},
        s \in {Str(UpperCased(w_success)), Str(w_cancelled), Str(w_weird), Num(<<"1">>)} }

\* arguments of a direct call of updatePaymentStatus: status and response blob
DirectUpdates ==
    { <<"processing", GatewayBlob([tranid |-> "T1", transaction_id |-> NULL,
                                   payment_id |-> "T1", status |-> "pending"])>>,
      <<"completed", NoBlob>>,
      <<"cancelled", NoBlob>> }

\* the spellings of a word that are delivered: lower case, upper case,
\* capitalised
Spellings(word) == {word, UpperCased(word), Capitalised(word)}

TableWords ==
    {w_success, w_successful, w_completed, w_paid, w_failed, w_error, w_cancelled,
     w_canceled, w_pending, w_processing, w_initiated}

\* raw status strings: every word of the table in every spelling, two
\* unlisted words, the empty string
RawStatusStrings ==
    UNION {Spellings(word) : word \in TableWords \cup {w_weird}} \cup {w_unknown, <<>>}

\* deliveries for the phone number of a payment that differ in the raw
\* status, under the key status or the key state, or carry none
StatusPayloads ==
    { Payload(NULL, NULL, NULL, Str(v), Absent, NULL, "712345678", NULL, NULL) :
        v \in RawStatusStrings }
    \cup { Payload(NULL, NULL, NULL, Absent, Str(v), NULL, "712345678", NULL, NULL) :
        v \in {UpperCased(w_canceled), w_initiated} }
    \cup { Payload(NULL, NULL, NULL, Absent, Absent, NULL, "712345678", NULL, NULL) }

\* ----------------------------------------------------------- specification
\* the operations, each running from call to return with no other operation
\* in between
Operation ==
    \/ \E token \in LinkIds, amount \in Amounts, phoneNumber \in {NULL} \cup Phones,
          fault \in BOOLEAN :
          GeneratePaymentLink(token, amount, phoneNumber, fault)
    \/ \E linkId \in LinkIds \cup {UnknownLink}, phoneNumber \in {NULL} \cup Phones,
          amount \in Amounts, gw \in GatewayOutcomes, fault1 \in BOOLEAN, fault2 \in BOOLEAN :
          ProcessPayment(linkId, phoneNumber, amount, gw, fault1, fault2)
    \/ \E linkId \in LinkIds \cup {UnknownLink}, u \in DirectUpdates, fault \in BOOLEAN :
          UpdatePaymentStatus(linkId, u[1], u[2], fault)
    \/ \E body \in Payloads \cup {EmptyBody}, fault \in WebhookFaults, logFault \in BOOLEAN :
          WebhookEndpoint(body, fault, logFault)
    \/ \E cb \in Callbacks, fault \in BOOLEAN :
          HandlePaymentCallback(cb, fault)
    \/ Tick

Next == Operation /\ UNCHANGED inflight

Spec == Init /\ [][Next]_vars

\* the reconciler on the whole status vocabulary: payments with a phone number
\* and deliveries that differ in the raw status
OperationStatus ==
    \/ \E token \in LinkIds, amount \in Amounts :
          GeneratePaymentLink(token, amount, "712345678", FALSE)
    \/ \E body \in StatusPayloads : WebhookEndpoint(body, "none", FALSE)

NextStatus == OperationStatus /\ UNCHANGED inflight

SpecStatus == Init /\ [][NextStatus]_vars

\* callbacks for generated links: the words of the callback's switch in every
\* spelling, words it does not list, the empty string and no status
CallbackStatuses ==
    {Str(v) : v \in UNION {Spellings(word) :
                              word \in {w_success, w_completed, w_failed, w_cancelled, w_weird}}}
    \cup {Str(w_pending), Str(w_paid), Str(<<>>), Absent}

CallbackVocabulary ==
    { [paymentReference |-> l, status |-> s, paymentId |-> "T1"] :
        l \in LinkIds, s \in CallbackStatuses }

OperationCallback ==
    \/ \E token \in LinkIds, amount \in Amounts :
          GeneratePaymentLink(token, amount, NULL, FALSE)
    \/ \E cb \in CallbackVocabulary : HandlePaymentCallback(cb, FALSE)

NextCallback == OperationCallback /\ UNCHANGED inflight

SpecCallback == Init /\ [][NextCallback]_vars

\* link generation, with storage faults and token collisions, direct status
\* updates and lookups by link id
OperationLookup ==
    \/ \E token \in LinkIds, amount \in Amounts, phoneNumber \in {NULL} \cup Phones,
          fault \in BOOLEAN :
          GeneratePaymentLink(token, amount, phoneNumber, fault)
    \/ \E linkId \in LinkIds \cup {UnknownLink}, u \in DirectUpdates, fault \in BOOLEAN :
          UpdatePaymentStatus(linkId, u[1], u[2], fault)
    \/ \E linkId \in LinkIds \cup {UnknownLink}, fault \in BOOLEAN :
          GetPaymentByLinkId(linkId, fault)
    \/ Tick

NextLookup == OperationLookup /\ UNCHANGED inflight

SpecLookup == Init /\ [][NextLookup]_vars

\* payments of different amounts in every status, and the statistics read
StatsAmounts == {100000, 250050}

OperationStats ==
    \/ \E token \in LinkIds, amount \in StatsAmounts :
          GeneratePaymentLink(token, amount, NULL, FALSE)
    \/ \E linkId \in LinkIds, status \in Statuses :
          UpdatePaymentStatus(linkId, status, NoBlob, FALSE)
    \/ \E fault \in BOOLEAN : GetPaymentStats(fault)

NextStats == OperationStats /\ UNCHANGED inflight

SpecStats == Init /\ [][NextStats]_vars

\* the phone numbers submitted for processing: local, with the leading 0 the
\* route asks for, with the country code, and with 255 in other positions
ProcessPhones ==
    {"712345678", "0712345678", "255712345678", "0255712345", "2550712345",
     "255255712", "25", "255"}

\* amounts submitted for processing: 1000.00, 2500.50, 999.49
ProcessAmounts == {100000, 250050, 99949}

\* the gateway refuses the request, or accepts it
GatewayReplies ==
    {[kind |-> "error"],
     [kind |-> "ok", data |-> [tranid |-> "T1", transaction_id |-> NULL,
                               payment_id |-> NULL, status |-> "pending"]]}

\* link generation, processing with the gateway and payments completed by a
\* direct status update
OperationGateway ==
    \/ \E token \in LinkIds : GeneratePaymentLink(token, 100000, NULL, FALSE)
    \/ \E linkId \in LinkIds, phoneNumber \in ProcessPhones, amount \in ProcessAmounts,
          gw \in GatewayReplies :
          ProcessPayment(linkId, phoneNumber, amount, gw, FALSE, FALSE)
    \/ \E linkId \in LinkIds : UpdatePaymentStatus(linkId, "completed", NoBlob, FALSE)

NextGateway == OperationGateway /\ UNCHANGED inflight

SpecGateway == Init /\ [][NextGateway]_vars

\* the four operations that write a status, webhooks and callbacks on their
\* whole status vocabulary (the table stores what it is given: the CHECK
\* constraint on status is not applied)
OperationVocabulary ==
    \/ \E token \in LinkIds : GeneratePaymentLink(token, 100000, "712345678", FALSE)
    \/ \E linkId \in LinkIds, phoneNumber \in {NULL, "712345678"}, gw \in GatewayOutcomes :
          ProcessPayment(linkId, phoneNumber, 100000, gw, FALSE, FALSE)
    \/ \E body \in StatusPayloads \cup Payloads : WebhookEndpoint(body, "none", FALSE)
    \/ \E cb \in CallbackVocabulary \cup Callbacks : HandlePaymentCallback(cb, FALSE)

NextVocabulary == OperationVocabulary /\ UNCHANGED inflight

SpecVocabulary == Init /\ [][NextVocabulary]_vars

\* ------------------------------------------------------------ the routes
\* the expected key (its characters stand for those of CODESKYTZ_API_KEY)
API_KEY == <<"k", "e", "y">>

\* String.prototype.trim: leading and trailing whitespace removed
RECURSIVE trimStart(_)
trimStart(s) == IF s # <<>> /\ s[1] = " " THEN trimStart(Tail(s)) ELSE s

RECURSIVE trimEnd(_)
trimEnd(s) ==
    IF s # <<>> /\ s[Len(s)] = " " THEN trimEnd(SubSeq(s, 1, Len(s) - 1)) ELSE s

trim(s) == trimEnd(trimStart(s))

\* req.header('codeskytz-api-key'): undefined when the header is not sent
NoHeader == [present |-> FALSE]
Header(value) == [present |-> TRUE, value |-> value]

\* the status authenticateApiKey answers with, or "next" when it calls next()
authenticateApiKey(header) ==
    IF ~header.present \/ header.value = <<>> THEN "401"
    ELSE IF trim(header.value) # API_KEY THEN "403"
    ELSE "next"

\* the routes of the payment API
Routes ==
    {"generate-link", "link", "process", "callback", "webhook", "stats", "pay"}

\* the routes registered with authenticateApiKey in their middleware list
KeyRoutes == {"generate-link", "link", "stats"}

\* a request answered by a middleware or by the route before any service
\* call: nothing is changed
Answered(route, http) ==
    /\ last' = [op |-> route, http |-> http]
    /\ UNCHANGED <<payments, webhook_logs, now, webhookCalls, writes, requests>>

\* the middleware list of a route, then its handler
Route(route, header, Handler) ==
    IF route \in KeyRoutes /\ authenticateApiKey(header) # "next"
    THEN Answered(route, authenticateApiKey(header))
    ELSE Handler

\* POST /api/payments/generate-link
RouteGenerateLink(header, token, amount) ==
    Route("generate-link", header, GeneratePaymentLink(token, amount, NULL, FALSE))

\* GET /api/payments/link/:paymentLinkId
RouteLink(header, linkId) ==
    Route("link", header, GetPaymentByLinkId(linkId, FALSE))

\* mutant of RouteProcess: the payment is processed without being looked up
\* first
RouteProcess_NoLookup(header, linkId, phoneNumber, gw) ==
    Route("process", header,
          LET payment == getPaymentByLinkId(payments, linkId)
          IN  ProcessPayment(linkId, phoneNumber,
                             IF payment = NoPayment THEN 100000 ELSE payment[1].amount,
                             gw, FALSE, FALSE))

\* POST /api/payments/process, with a body that passes validatePaymentProcessing:
\* 404 when the link is not found, else processPayment with the amount of the
\* payment found
RouteProcess(header, linkId, phoneNumber, gw) ==
    Route("process", header,
          LET payment == getPaymentByLinkId(payments, linkId)
          IN  IF payment = NoPayment THEN Answered("process", "404")
              ELSE ProcessPayment(linkId, phoneNumber, payment[1].amount, gw, FALSE, FALSE))

\* POST /api/payments/callback
RouteCallback(header, cb) ==
    Route("callback", header, HandlePaymentCallback(cb, FALSE))

\* POST /api/payments/webhook
RouteWebhook(header, body) ==
    Route("webhook", header, WebhookEndpoint(body, "none", FALSE))

\* GET /api/payments/stats
RouteStats(header) ==
    Route("stats", header, GetPaymentStats(FALSE))

\* GET /pay/:paymentLinkId
RoutePay(header, linkId) ==
    Route("pay", header, GetPaymentByLinkId(linkId, FALSE))

\* header values: none, empty, the key, the key padded, another key, the key
\* in upper case, blanks
Headers ==
    {NoHeader, Header(<<>>), Header(API_KEY), Header(<<" ", "k", "e", "y", " ">>),
     Header(<<"k", "e">>), Header(<<"K", "E", "Y">>), Header(<<" ">>)}

\* phone numbers that pass validatePaymentProcessing (0 and nine digits)
LocalPhones == {"0712345678", "0255712345"}

RouteCallbacks ==
    { [paymentReference |-> l, status |-> Str(UpperCased(w_success)), paymentId |-> "T1"] :
        l \in LinkIds }

\* requests to the routes, with and without the key
OperationRoutes ==
    \/ \E header \in Headers, token \in LinkIds : RouteGenerateLink(header, token, 100000)
    \/ \E header \in Headers, linkId \in LinkIds \cup {UnknownLink} : RouteLink(header, linkId)
    \/ \E header \in Headers, linkId \in LinkIds \cup {UnknownLink},
          phoneNumber \in LocalPhones, gw \in GatewayReplies :
          RouteProcess(header, linkId, phoneNumber, gw)
    \/ \E header \in Headers, cb \in RouteCallbacks : RouteCallback(header, cb)
    \/ \E header \in Headers, body \in Payloads \cup {EmptyBody} : RouteWebhook(header, body)
    \/ \E header \in Headers : RouteStats(header)
    \/ \E header \in Headers, linkId \in LinkIds \cup {UnknownLink} : RoutePay(header, linkId)

NextRoutes == OperationRoutes /\ UNCHANGED inflight

SpecRoutes == Init /\ [][NextRoutes]_vars

\* webhook requests handled concurrently, statement by statement, next to
\* link generation and direct status updates
NextConcurrent ==
    \/ /\ \E token \in LinkIds, amount \in Amounts, phoneNumber \in {NULL} \cup Phones :
             GeneratePaymentLink(token, amount, phoneNumber, FALSE)
       /\ UNCHANGED inflight
    \/ /\ \E linkId \in LinkIds, u \in DirectUpdates :
             UpdatePaymentStatus(linkId, u[1], u[2], FALSE)
       /\ UNCHANGED inflight
    \/ Tick /\ UNCHANGED inflight
    \/ \E h \in Handlers, body \in Payloads \cup {EmptyBody} : WebhookReceive(h, body)
    \/ \E h \in Handlers, fault \in BOOLEAN : WebhookQuery1(h, fault)
    \/ \E h \in Handlers, fault \in BOOLEAN : WebhookQuery2(h, fault)
    \/ \E h \in Handlers, fault \in BOOLEAN : WebhookUpdate(h, fault)
    \/ \E h \in Handlers, logFault \in BOOLEAN : WebhookLog(h, logFault)

SpecConcurrent == Init /\ [][NextConcurrent]_vars

\* processPayment handled statement by statement next to webhook deliveries
\* for payments that carry a phone number
NextRace ==
    \/ /\ \E token \in LinkIds : GeneratePaymentLink(token, 100000, "712345678", FALSE)
       /\ UNCHANGED inflight
    \/ /\ \E body \in Payloads : WebhookEndpoint(body, "none", FALSE)
       /\ UNCHANGED inflight
    \/ \E h \in Handlers, linkId \in LinkIds, phoneNumber \in {NULL, "712345678"},
          gw \in GatewayReplies : ProcessSend(h, linkId, phoneNumber, 100000, gw)
    \/ \E h \in Handlers, fault1 \in BOOLEAN : ProcessStore(h, fault1)
    \/ \E h \in Handlers, fault2 \in BOOLEAN : ProcessCatch(h, fault2)
    \/ Tick /\ UNCHANGED inflight

SpecRace == Init /\ [][NextRace]_vars

\* webhook requests handled concurrently, statement by statement, with no
\* storage fault and no other writer
NextDuplicates ==
    \/ /\ \E token \in LinkIds, phoneNumber \in {NULL} \cup Phones :
             GeneratePaymentLink(token, 100000, phoneNumber, FALSE)
       /\ UNCHANGED inflight
    \/ Tick /\ UNCHANGED inflight
    \/ \E h \in Handlers, body \in Payloads : WebhookReceive(h, body)
    \/ \E h \in Handlers : WebhookQuery1(h, FALSE)
    \/ \E h \in Handlers : WebhookQuery2(h, FALSE)
    \/ \E h \in Handlers : WebhookUpdate(h, FALSE)
    \/ \E h \in Handlers : WebhookLog(h, FALSE)

SpecDuplicates == Init /\ [][NextDuplicates]_vars

\* every operation of the service, the two read-only ones included
OperationAudit ==
    \/ \E token \in LinkIds, fault \in BOOLEAN :
          GeneratePaymentLink(token, 100000, "712345678", fault)
    \/ \E linkId \in LinkIds \cup {UnknownLink}, fault \in BOOLEAN :
          GetPaymentByLinkId(linkId, fault)
    \/ \E linkId \in LinkIds, phoneNumber \in {NULL, "712345678"}, gw \in GatewayReplies,
          fault1 \in BOOLEAN, fault2 \in BOOLEAN :
          ProcessPayment(linkId, phoneNumber, 100000, gw, fault1, fault2)
    \/ \E linkId \in LinkIds \cup {UnknownLink}, u \in DirectUpdates, fault \in BOOLEAN :
          UpdatePaymentStatus(linkId, u[1], u[2], fault)
    \/ \E body \in Payloads \cup {EmptyBody}, fault \in WebhookFaults :
          WebhookEndpoint(body, fault, FALSE)
    \/ \E cb \in Callbacks, fault \in BOOLEAN : HandlePaymentCallback(cb, fault)
    \/ \E fault \in BOOLEAN : GetPaymentStats(fault)

NextAudit == OperationAudit /\ UNCHANGED inflight

SpecAudit == Init /\ [][NextAudit]_vars

\* ================================================================== claims
\* what a claim says of a delivery, stated on the tables and not through the
\* reconciler's queries
ExtMatches(w, p) ==
    ExtractTransactionId(w) # NULL /\ p.external_payment_id = ExtractTransactionId(w)

PhoneMatches(w, p, t) ==
    /\ ExtractPhoneNumber(w) # NULL
    /\ p.phone_number = ExtractPhoneNumber(w)
    /\ p.created_at > t - Hour

\* no payment has the delivery's transaction id, no recent payment its phone
Unmatched(w) ==
    \A i \in DOMAIN payments :
        ~ExtMatches(w, payments[i]) /\ ~PhoneMatches(w, payments[i], now)

\* payment i is the one payment the delivery can be matched to
OnlyCandidate(w, i) ==
    /\ ExtMatches(w, payments[i]) \/ PhoneMatches(w, payments[i], now)
    /\ \A j \in DOMAIN payments \ {i} :
          ~ExtMatches(w, payments[j]) /\ ~PhoneMatches(w, payments[j], now)

LogRow(paymentId, w, status, error) ==
    [payment_id |-> paymentId, webhook_data |-> w, status |-> status,
     error_message |-> error]

LastLog == webhook_logs[Len(webhook_logs)]

\* the step appends the audit row of a delivery of body
Logged(body) ==
    /\ Len(webhook_logs') = Len(webhook_logs) + 1
    /\ webhook_logs'[Len(webhook_logs')].webhook_data = body

NormalizesToCompleted(w) ==
    ExtractStatus(w) \in {w_success, w_successful, w_completed, w_paid}

\* the preceding delivery logged was the same payload, processed for payment i
DeliveredBefore(w, i) ==
    /\ webhook_logs # <<>>
    /\ LastLog = LogRow(payments[i].id, w, "processed", NoMsg)

\* C3: when a payload whose status normalizes to completed was delivered and
\* is delivered again for the payment it matches, already completed, the
\* second delivery performs no payment update (status, paid_at, updated_at,
\* response blob and every other column are the same before and after) and
\* adds a second processed row for that payment.
C3_IdempotentRedelivery ==
    [][\A body \in Payloads, fault \in {"none", "update"}, i \in DOMAIN payments :
          ( /\ Logged(body)
            /\ WebhookEndpoint(body, fault, FALSE)
            /\ OnlyCandidate(body, i)
            /\ DeliveredBefore(body, i)
            /\ payments[i].status = "completed"
            /\ NormalizesToCompleted(body) ) =>
              /\ payments' = payments
              /\ webhook_logs' =
                    Append(webhook_logs, LogRow(payments[i].id, body, "processed", NoMsg))
              /\ last'.success]_vars

\* the same payload was delivered twice for a completed payment, the second
\* time after the clock moved on, and the payment still carries the time of
\* the first delivery
C3_Witness ==
    /\ Len(webhook_logs) = 2
    /\ webhook_logs[1] = webhook_logs[2]
    /\ webhook_logs[2].status = "processed"
    /\ last.op = "webhook"
    /\ \E i \in DOMAIN payments :
          /\ payments[i].id = webhook_logs[2].payment_id
          /\ payments[i].status = "completed"
          /\ payments[i].updated_at < now
          /\ payments[i].paid_at = payments[i].updated_at

\* ---------------------------------------------------------------------- C4
\* the internal status the table of the claim gives a raw status string,
\* whatever its spelling
DocumentedStatus(raw) ==
    IF \E word \in {w_success, w_successful, w_completed, w_paid} : raw \in Spellings(word)
    THEN "completed"
    ELSE IF \E word \in {w_failed, w_error, w_cancelled, w_canceled} : raw \in Spellings(word)
    THEN "failed"
    ELSE IF \E word \in {w_pending, w_processing, w_initiated} : raw \in Spellings(word)
    THEN "processing"
    ELSE "pending"

\* the raw status string of a delivery: under status, else under state, else
\* none
RawStatus(w) == IF w.status.val # <<>> THEN w.status.val ELSE w.state.val

TerminalStatuses == {"completed", "failed", "cancelled"}

\* C5 as stated: once a payment's status is completed, failed or cancelled, no
\* later operation changes it to a different status.
C5_TerminalStays ==
    [][\A i \in DOMAIN payments :
          payments[i].status \in TerminalStatuses =>
              payments'[i].status = payments[i].status]_vars

\* ---------------------------------------------------------------------- C6
\* C6 as stated: after processPayment succeeds with a gateway response that
\* carries the gateway-assigned transaction identifier T, the payment's
\* external_payment_id equals T (so that a later webhook carrying tranid T
\* finds the payment by it).
C6_ExternalIdStored ==
    [][\A linkId \in LinkIds, phoneNumber \in Phones, amount \in Amounts, gw \in GatewayOutcomes,
          i \in DOMAIN payments :
          ( /\ gw.kind = "ok"
            /\ payments[i].payment_link_id = linkId
            /\ ProcessPayment(linkId, phoneNumber, amount, gw, FALSE, FALSE) ) =>
              payments'[i].external_payment_id =
                  (IF gw.data.tranid # NULL THEN gw.data.tranid
                   ELSE gw.data.transaction_id)]_vars

\* ---------------------------------------------------------------------- C7
\* C7: a delivery whose extraction completes and whose storage statements
\* succeed is matched (a) to a payment whose external_payment_id equals the
\* extracted transaction id, if there is one; (b) else to a most recently
\* created payment among those with the extracted phone number created within
\* the last hour, if there is one; (c) else to none.  No other payment is
\* touched.
C7_FirstMatchWins ==
    [][\A body \in Payloads :
          ( /\ Logged(body)
            /\ WebhookEndpoint(body, "none", FALSE)
            /\ ~StatusThrows(body) ) =>
              LET byExt == {i \in DOMAIN payments : ExtMatches(body, payments[i])}
                  byPhone == {i \in DOMAIN payments : PhoneMatches(body, payments[i], now)}
                  newest == {i \in byPhone :
                                \A j \in byPhone :
                                    payments[j].created_at <= payments[i].created_at}
                  row == webhook_logs'[Len(webhook_logs')]
              IN  /\ byExt # {} =>
                        /\ row.status = "processed"
                        /\ \E i \in byExt : row.payment_id = payments[i].id
                  /\ (byExt = {} /\ byPhone # {}) =>
                        /\ row.status = "processed"
                        /\ \E i \in newest : row.payment_id = payments[i].id
                  /\ (byExt = {} /\ byPhone = {}) =>
                        /\ row.status = "no_matching_payment"
                        /\ row.payment_id = NoId
                  /\ \A j \in DOMAIN payments :
                        payments[j].id # row.payment_id => payments'[j] = payments[j]]_vars

\* a delivery that carries the transaction id of one payment and the phone
\* number of another, newer and recent one was matched to the first; the
\* second is untouched
C7_Witness ==
    /\ last.op = "webhook"
    /\ webhook_logs # <<>>
    /\ LastLog.status = "processed"
    /\ \E i, j \in DOMAIN payments :
          /\ i # j
          /\ payments[i].id = LastLog.payment_id
          /\ payments[i].external_payment_id = LastLog.webhook_data.tranid
          /\ payments[i].phone_number = NULL
          /\ payments[i].status = "completed"
          /\ payments[j].phone_number = LastLog.webhook_data.number
          /\ payments[j].created_at > now - Hour
          /\ payments[j].created_at > payments[i].created_at
          /\ payments[j].status = "pending"

\* ---------------------------------------------------------------------- C8
\* C8: when processPayment fails (the gateway call throws on a network error
\* or a non-2xx answer, the response body is unusable, or the call fails
\* before the payment could be marked processing) and the update of the catch
\* block is stored, the payment identified by paymentLinkId has status failed
\* and the response blob {error: message} of the error caught, and the caller
\* receives the error "Payment processing failed: message", never a success.
C8_FailureRecorded ==
    [][\A linkId \in LinkIds, phoneNumber \in {NULL} \cup Phones, amount \in Amounts, gw \in GatewayOutcomes,
          fault1 \in BOOLEAN, i \in DOMAIN payments :
          ( /\ phoneNumber = NULL \/ gw.kind # "ok" \/ fault1
            /\ payments[i].payment_link_id = linkId
            /\ ProcessPayment(linkId, phoneNumber, amount, gw, fault1, FALSE) ) =>
              /\ payments'[i].status = "failed"
              /\ last'.threw
              /\ ~last'.success
              /\ Head(last'.error) = "Payment processing failed"
              /\ payments'[i].fastlipa_response = ErrorBlob(Tail(last'.error))]_vars

\* the gateway call failed for an existing payment, which is now failed with
\* the gateway error in its blob
C8_Witness ==
    /\ last.op = "processPayment"
    /\ last.threw
    /\ last.error = Wrapped("Payment processing failed", MsgGateway)
    /\ \E i \in DOMAIN payments :
          /\ payments[i].status = "failed"
          /\ payments[i].fastlipa_response = ErrorBlob(MsgGateway)

\* ---------------------------------------------------------------------- C9
\* C9: when the create-transaction call succeeds with a response object and
\* the update is stored, the payment identified by paymentLinkId has status
\* processing and the full gateway response as its blob, and the call returns
\* success with the gateway transaction id.
C9_ProcessingStored ==
    [][\A linkId \in LinkIds, phoneNumber \in Phones, amount \in Amounts, gw \in GatewayOutcomes,
          fault2 \in BOOLEAN, i \in DOMAIN payments :
          ( /\ gw.kind = "ok"
            /\ payments[i].payment_link_id = linkId
            /\ ProcessPayment(linkId, phoneNumber, amount, gw, FALSE, fault2) ) =>
              /\ payments'[i].status = "processing"
              /\ payments'[i].fastlipa_response = [kind |-> "gateway", data |-> gw.data]
              /\ ~last'.threw
              /\ last'.success
              /\ last'.paymentId \in {gw.data.tranid, gw.data.transaction_id} \ {NULL}]_vars

\* a payment is processing with the gateway response stored and the caller
\* got its transaction id
C9_Witness ==
    /\ last.op = "processPayment"
    /\ last.success
    /\ \E i \in DOMAIN payments :
          /\ payments[i].status = "processing"
          /\ payments[i].fastlipa_response.kind = "gateway"
          /\ payments[i].fastlipa_response.data.tranid = last.paymentId

\* --------------------------------------------------------------------- C10
\* C10 as stated: updatePaymentStatus called with a link id that matches no
\* payment row fails (it does not return normally) and changes no row, and
\* handlePaymentCallback with an unknown paymentReference does not report
\* success.
C10_NotFoundFails ==
    [][/\ \A u \in DirectUpdates :
            UpdatePaymentStatus(UnknownLink, u[1], u[2], FALSE) =>
                (last'.threw /\ payments' = payments)
       /\ \A cb \in Callbacks :
            (cb.paymentReference = UnknownLink /\ HandlePaymentCallback(cb, FALSE)) =>
                ~last'.success]_vars

\* --------------------------------------------------------------------- C11
\* C11 as stated: paid_at changes only in a step that moves the payment's
\* status from a non-completed value to completed; an operation that leaves an
\* already-completed payment completed does not change paid_at.
C11_PaidAtOnlyOnTransition ==
    [][\A i \in DOMAIN payments :
          payments'[i].paid_at # payments[i].paid_at =>
              /\ payments[i].status # "completed"
              /\ payments'[i].status = "completed"]_vars

\* --------------------------------------------------------------------- C12
\* C12: webhook requests handled concurrently read the payment and write it
\* later with no lock.  Every update that commits stores the committing
\* request's normalized status and blob, whatever status the row has by then
\* (also one written by another request after this one read the row), and
\* nothing but a commit changes a stored row: the stored status is the one of
\* the update that committed last.
C12_LastWriteWins ==
    [][/\ \A h \in Handlers :
            (inflight[h].pc = "update" /\ WebhookUpdate(h, FALSE)) =>
                \A i \in DOMAIN payments :
                    payments[i].payment_link_id = inflight[h].link =>
                        /\ payments'[i].status = MapStatus(ExtractStatus(inflight[h].body))
                        /\ payments'[i].fastlipa_response.kind = "webhook"
                        /\ payments'[i].fastlipa_response.webhookData = inflight[h].body
       /\ \A i \in DOMAIN payments :
            payments'[i] # payments[i] =>
                \/ writes' = writes + 1
                \/ \E h \in Handlers :
                      /\ inflight[h].pc = "update"
                      /\ inflight'[h].pc = "log"
                      /\ inflight[h].link = payments[i].payment_link_id]_vars

\* two requests for one payment, one normalizing to completed and one to
\* failed, both read the payment as pending and both committed
RacedRequests(hc, hf) ==
    /\ hc # hf
    /\ inflight[hc].pc = "done" /\ inflight[hf].pc = "done"
    /\ inflight[hc].outcome = "processed" /\ inflight[hf].outcome = "processed"
    /\ inflight[hc].payment = inflight[hf].payment
    /\ inflight[hc].previousStatus = "pending"
    /\ inflight[hf].previousStatus = "pending"
    /\ MapStatus(ExtractStatus(inflight[hc].body)) = "completed"
    /\ MapStatus(ExtractStatus(inflight[hf].body)) = "failed"

\* ... and the payment ended completed: the completing update committed last
C12_Witness ==
    \E hc, hf \in Handlers :
        /\ RacedRequests(hc, hf)
        /\ payments[inflight[hc].payment].status = "completed"
        /\ payments[inflight[hc].payment].fastlipa_response.webhookData = inflight[hc].body

\* ... and the payment ended failed: the failing update committed last, and
\* paid_at of the overwritten completion is still set
C12_WitnessFailedLast ==
    \E hc, hf \in Handlers :
        /\ RacedRequests(hc, hf)
        /\ payments[inflight[hf].payment].status = "failed"
        /\ payments[inflight[hf].payment].fastlipa_response.webhookData = inflight[hf].body
        /\ payments[inflight[hf].payment].paid_at # NoTime

\* --------------------------------------------------------------------- C13
\* C13 as stated: the webhook endpoint answers 200 exactly when the reconciler
\* result has success:true, 400 when the payload is empty or absent, and 500
\* when the reconciler throws; when no storage statement fails the caller
\* receives 200 (matched) or 400 (not matched, or empty).
C13_HttpStatus ==
    [][\A body \in Payloads \cup {EmptyBody}, fault \in WebhookFaults, logFault \in BOOLEAN :
          WebhookEndpoint(body, fault, logFault) =>
              /\ last'.http = 200 <=> last'.success
              /\ body = EmptyBody => last'.http = 400
              /\ last'.threw <=> last'.http = 500
              /\ fault = "none" =>
                    /\ last'.http \in {200, 400}
                    /\ last'.outcome \in {"processed", "no_matching_payment", "empty"}]_vars

\* --------------------------------------------------------------------- C14
\* C14 as stated: for every non-empty payload, whatever the presence or type
\* of its fields, a delivery during which no storage statement fails ends in a
\* matched result or a no_matching_payment result, never in an error.
C14_GracefulDegradation ==
    [][\A body \in Payloads, logFault \in BOOLEAN :
          WebhookEndpoint(body, "none", logFault) =>
              /\ ~last'.threw
              /\ last'.outcome \in {"processed", "no_matching_payment"}
              /\ \A k \in (DOMAIN webhook_logs') \ (DOMAIN webhook_logs) :
                    webhook_logs'[k].status # "error"]_vars

\* --------------------------------------------------------------------- C15
\* C15: when a step of handleFastlipaWebhook fails (the status extraction
\* throws, or a lookup or the payment update meets a storage fault) and the
\* log insert is stored, exactly one audit row with status error, null
\* payment_id and the message of that error is written, no payment changes,
\* and the caller receives that same error (500 with its message).  A fault of
\* the first lookup strikes whenever a transaction id was extracted, one of
\* the second whenever a phone number was and the first lookup found nothing.
C15_ErrorLogged ==
    [][\A body \in Payloads, fault \in WebhookFaults :
          ( /\ Logged(body)
            /\ WebhookEndpoint(body, fault, FALSE) ) =>
              LET original == IF StatusThrows(body) THEN MsgTypeError
                              ELSE IF fault = "update" THEN MsgUpdate
                              ELSE MsgStorage
                  struck ==
                      \/ StatusThrows(body)
                      \/ fault = "query1" /\ ExtractTransactionId(body) # NULL
                      \/ /\ fault = "query2"
                         /\ ExtractPhoneNumber(body) # NULL
                         /\ \A i \in DOMAIN payments : ~ExtMatches(body, payments[i])
              IN  /\ struck => last'.threw
                  /\ last'.threw =>
                        /\ webhook_logs' =
                              Append(webhook_logs, LogRow(NoId, body, "error", original))
                        /\ payments' = payments
                        /\ last'.details = original
                        /\ last'.http = 500]_vars

\* a delivery matched a payment, the update met a storage fault, and the
\* error row carries the message the caller received
C15_Witness ==
    /\ last.op = "webhook"
    /\ last.threw
    /\ last.details = MsgUpdate
    /\ webhook_logs # <<>>
    /\ LastLog.status = "error"
    /\ LastLog.error_message = MsgUpdate
    /\ LastLog.payment_id = NoId
    /\ \E i \in DOMAIN payments : PhoneMatches(LastLog.webhook_data, payments[i], now)

\* --------------------------------------------------------------------- C16
\* C16: when the audit-log insert of a delivery fails, no row is added and
\* the delivery ends as it would have with the insert stored: a matched
\* delivery returns success (200) and the matched payment has the normalized
\* status, an unmatched one returns the no-match result (400), and when a step
\* failed the caller receives that step's error, not the logging error.
C16_LogFailureSwallowed ==
    [][\A body \in Payloads, fault \in WebhookFaults :
          ( /\ webhookCalls' = webhookCalls + 1
            /\ webhook_logs' = webhook_logs
            /\ WebhookEndpoint(body, fault, TRUE) ) =>
              /\ \E r \in handleFastlipaWebhook(payments, webhook_logs, now, body, fault, FALSE) :
                    /\ payments' = r.payments
                    /\ last'.success = r.success
                    /\ last'.threw = r.threw
                    /\ last'.outcome = r.outcome
                    /\ last'.details = r.error
              /\ last'.details # NoMsg =>
                    last'.details = (IF StatusThrows(body) THEN MsgTypeError
                                     ELSE IF fault = "update" THEN MsgUpdate
                                     ELSE MsgStorage)
              /\ (fault = "none" /\ ~StatusThrows(body)) =>
                    IF Unmatched(body)
                    THEN /\ last'.outcome = "no_matching_payment"
                         /\ last'.http = 400
                         /\ payments' = payments
                    ELSE /\ last'.success
                         /\ last'.http = 200
                         /\ \E i \in DOMAIN payments :
                               /\ \/ ExtMatches(body, payments[i])
                                  \/ PhoneMatches(body, payments[i], now)
                               /\ payments'[i].status = MapStatus(ExtractStatus(body))]_vars

\* a matched delivery whose log insert failed: the payment is completed by
\* it, the caller got success, and webhook_logs has no row
C16_Witness ==
    /\ last.op = "webhook"
    /\ last.success
    /\ webhookCalls = 1
    /\ webhook_logs = <<>>
    /\ \E i \in DOMAIN payments :
          /\ payments[i].status = "completed"
          /\ payments[i].fastlipa_response.kind = "webhook"

\* --------------------------------------------------------------------- C17
\* the Status Mapping table of the README
ReadmeStatus(raw) ==
    IF raw = w_success THEN "completed"
    ELSE IF raw = w_failed THEN "failed"
    ELSE IF raw = w_cancelled THEN "cancelled"
    ELSE "processing"

\* C17 as stated: a webhook with Fastlipa status success sets the matched
\* payment to completed, failed to failed, cancelled to cancelled and pending
\* to processing.
C17_ReadmeMapping ==
    [][\A body \in StatusPayloads, i \in DOMAIN payments :
          ( /\ Logged(body)
            /\ RawStatus(body) \in {w_success, w_failed, w_cancelled, w_pending}
            /\ WebhookEndpoint(body, "none", FALSE)
            /\ OnlyCandidate(body, i) ) =>
              payments'[i].status = ReadmeStatus(RawStatus(body))]_vars

\* --------------------------------------------------------------------- C18
\* the table of the legacy callback, case-insensitive
LegacyStatus(raw) ==
    IF \E word \in {w_success, w_completed} : raw \in Spellings(word) THEN "completed"
    ELSE IF raw \in Spellings(w_failed) THEN "failed"
    ELSE IF raw \in Spellings(w_cancelled) THEN "cancelled"
    ELSE "processing"

\* C18: for a status that is a string or absent, handlePaymentCallback sets
\* the payment whose link id equals paymentReference to completed for success
\* or completed in any spelling, failed for failed, cancelled for cancelled
\* and processing for anything else, stores the callback as the response blob,
\* leaves every other payment alone and returns {success: true}.
C18_CallbackMapping ==
    [][\A cb \in CallbackVocabulary, i \in DOMAIN payments :
          ( /\ writes' = writes + 1
            /\ payments[i].payment_link_id = cb.paymentReference
            /\ HandlePaymentCallback(cb, FALSE) ) =>
              /\ payments'[i].status = LegacyStatus(cb.status.val)
              /\ payments'[i].fastlipa_response.kind = "callback"
              /\ payments'[i].fastlipa_response.callbackData = cb
              /\ \A j \in DOMAIN payments \ {i} : payments'[j] = payments[j]
              /\ last'.success
              /\ ~last'.threw]_vars

\* the second of two callbacks carried the status Cancelled and its payment
\* is cancelled, with the callback stored as the response blob
C18_Witness ==
    /\ last.op = "handlePaymentCallback"
    /\ last.success
    /\ writes = 2
    /\ \E i \in DOMAIN payments :
          /\ payments[i].status = "cancelled"
          /\ payments[i].fastlipa_response.kind = "callback"
          /\ payments[i].fastlipa_response.callbackData.status = Str(Capitalised(w_cancelled))

\* --------------------------------------------------------------------- C19
\* C19: right after a successful generatePaymentLink that drew the link id
\* token, getPaymentByLinkId(token) yields a record with payment_link_id =
\* token, status pending and currency TZS; every call of getPaymentByLinkId
\* returns the stored row that has the link id asked for, null when no payment
\* has it (an id never generated), and changes nothing.
C19_RoundTrip ==
    [][/\ \A token \in LinkIds, amount \in Amounts, phoneNumber \in {NULL} \cup Phones :
            ( /\ Len(payments') = Len(payments) + 1
              /\ GeneratePaymentLink(token, amount, phoneNumber, FALSE) ) =>
                LET got == getPaymentByLinkId(payments', token)
                IN  /\ ~last'.threw
                    /\ got # NoPayment
                    /\ got[1].payment_link_id = token
                    /\ got[1].status = "pending"
                    /\ got[1].currency = "TZS"
                    /\ got[1].amount = amount
       /\ \A linkId \in LinkIds \cup {UnknownLink} :
            GetPaymentByLinkId(linkId, FALSE) =>
                /\ payments' = payments /\ webhook_logs' = webhook_logs
                /\ ~last'.threw
                /\ \A i \in DOMAIN payments :
                      payments[i].payment_link_id = linkId => last'.payment = <<payments[i]>>
                /\ (\A i \in DOMAIN payments : payments[i].payment_link_id # linkId) =>
                      last'.payment = NoPayment]_vars

\* the second of two generated links was looked up before anything else
\* happened to its payment: the record found is that payment, still pending
C19_Witness ==
    /\ last.op = "getPaymentByLinkId"
    /\ ~last.threw
    /\ Len(payments) = 2
    /\ last.payment = <<payments[2]>>
    /\ last.linkId = payments[2].payment_link_id
    /\ payments[2].status = "pending"
    /\ payments[2].currency = "TZS"
    /\ payments[2].updated_at = payments[2].created_at
    /\ payments[1].status # "pending"

\* --------------------------------------------------------------------- C20
\* C20: in every reachable state no two payment rows share a payment_link_id;
\* a successful generatePaymentLink returns a link id that no stored payment
\* has and stores one new row with it (so two successful calls, also with
\* identical input, return distinct ids); a generation whose token collides
\* with a stored one fails with the store's error and persists nothing.
C20_UniqueLinks ==
    /\ [](\A i, j \in DOMAIN payments :
             i # j => payments[i].payment_link_id # payments[j].payment_link_id)
    /\ [][\A token \in LinkIds, amount \in Amounts, phoneNumber \in {NULL} \cup Phones :
             GeneratePaymentLink(token, amount, phoneNumber, FALSE) =>
                 IF \E i \in DOMAIN payments : payments[i].payment_link_id = token
                 THEN /\ last'.threw
                      /\ last'.error = Wrapped("Failed to generate payment link", MsgDuplicate)
                      /\ payments' = payments
                 ELSE /\ ~last'.threw
                      /\ last'.paymentLinkId = token
                      /\ Len(payments') = Len(payments) + 1
                      /\ payments'[Len(payments')].payment_link_id = token
                      /\ \A i \in DOMAIN payments : payments'[i] = payments[i]]_vars

\* after a payment was stored, a generation with the same input drew the
\* stored token and failed on the UNIQUE constraint: still one payment
C20_Witness ==
    /\ last.op = "generatePaymentLink"
    /\ last.threw
    /\ last.error = Wrapped("Failed to generate payment link", MsgDuplicate)
    /\ Len(payments) = 1

\* --------------------------------------------------------------------- C21
\* the sum of the amounts of the payments of a set of rows
RECURSIVE AmountOf(_)
AmountOf(rows) ==
    IF rows = {} THEN 0
    ELSE LET i == CHOOSE i \in rows : TRUE
         IN  payments[i].amount + AmountOf(rows \ {i})

\* C21 as stated: getPaymentStats returns total_payments = number of
\* payments, completed_payments, pending_payments and failed_payments = number
\* of payments in that status, and total_amount = sum of the amounts of the
\* completed payments; it changes no payment and no audit row.
C21_Stats ==
    [][GetPaymentStats(FALSE) =>
          /\ payments' = payments
          /\ webhook_logs' = webhook_logs
          /\ last'.stats.total_payments = Len(payments)
          /\ \A s \in {"completed", "pending", "failed"} :
                Cardinality({i \in DOMAIN payments : payments[i].status = s}) =
                    (IF s = "completed" THEN last'.stats.completed_payments
                     ELSE IF s = "pending" THEN last'.stats.pending_payments
                     ELSE last'.stats.failed_payments)
          /\ last'.stats.total_amount =
                <<AmountOf({i \in DOMAIN payments : payments[i].status = "completed"})>>]_vars

\* --------------------------------------------------------------------- C22
\* the request sent last
LastRequest == requests[Len(requests)]

\* whether a phone number starts with the calling code
StartsWithCallingCode(c) == Len(c) >= 3 /\ c[1] = "2" /\ c[2] = "5" /\ c[3] = "5"

\* C22: processPayment sends a phone number that starts with 255 with exactly
\* its first three characters removed, and any other phone number unchanged.
C22_PhoneNormalization ==
    [][\A linkId \in LinkIds, phoneNumber \in ProcessPhones, amount \in ProcessAmounts,
          gw \in GatewayReplies :
          ( /\ Len(requests') = Len(requests) + 1
            /\ ProcessPayment(linkId, phoneNumber, amount, gw, FALSE, FALSE) ) =>
          LET c == PhoneChars(phoneNumber)
              sent == requests'[Len(requests')].number
          IN  /\ StartsWithCallingCode(c) =>
                    /\ Len(sent) = Len(c) - 3
                    /\ \A k \in 1..Len(sent) : sent[k] = c[k + 3]
              /\ ~StartsWithCallingCode(c) => sent = c
              /\ phoneNumber = "255712345678" => sent = PhoneChars("712345678")
              /\ phoneNumber = "0712345678" => sent = PhoneChars("0712345678")]_vars

\* C22 witness: 255712345678 was sent as 712345678 and 0712345678 as itself
C22_Witness ==
    /\ Len(requests) = 2
    /\ last.op = "processPayment"
    /\ requests[1].number = PhoneChars("712345678")
    /\ requests[2].number = PhoneChars("0712345678")

\* --------------------------------------------------------------------- C23
\* a header that does not carry the valid key
InvalidHeaders == {h \in Headers : ~h.present \/ trim(h.value) # API_KEY}

\* the requests of a route with a given header
RouteRequest(route, header) ==
    CASE route = "generate-link" ->
            \E token \in LinkIds : RouteGenerateLink(header, token, 100000)
      [] route = "link" ->
            \E linkId \in LinkIds \cup {UnknownLink} : RouteLink(header, linkId)
      [] route = "process" ->
            \E linkId \in LinkIds \cup {UnknownLink}, phoneNumber \in LocalPhones,
               gw \in GatewayReplies : RouteProcess(header, linkId, phoneNumber, gw)
      [] route = "callback" -> \E cb \in RouteCallbacks : RouteCallback(header, cb)
      [] route = "webhook" ->
            \E body \in Payloads \cup {EmptyBody} : RouteWebhook(header, body)
      [] route = "stats" -> RouteStats(header)
      [] route = "pay" ->
            \E linkId \in LinkIds \cup {UnknownLink} : RoutePay(header, linkId)

\* C23 as stated: every endpoint answers a request without the header (or
\* with an empty one) 401 and a request with a wrong key 403, and such a
\* request reads and changes no payment state.
C23_AllEndpointsAuthenticated ==
    [][\A route \in Routes, header \in InvalidHeaders :
          RouteRequest(route, header) =>
             /\ last' = [op |-> route,
                         http |-> IF ~header.present \/ header.value = <<>>
                                  THEN "401" ELSE "403"]
             /\ payments' = payments
             /\ webhook_logs' = webhook_logs
             /\ requests' = requests]_vars

\* the routes that carry authenticateApiKey do answer 401 and 403 and change
\* nothing
KeyRoutesAuthenticated ==
    [][\A route \in KeyRoutes, header \in InvalidHeaders :
          RouteRequest(route, header) =>
             /\ last' = [op |-> route,
                         http |-> IF ~header.present \/ header.value = <<>>
                                  THEN "401" ELSE "403"]
             /\ payments' = payments
             /\ webhook_logs' = webhook_logs
             /\ requests' = requests]_vars

\* a payment was completed and a gateway request was sent by requests that
\* carried no key
UnauthenticatedChange ==
    /\ last.op = "handlePaymentCallback"
    /\ requests # <<>>
    /\ \E i \in DOMAIN payments : payments[i].status = "completed"

\* --------------------------------------------------------------------- C24
\* C24: payment identity is immutable and payments are never deleted: across
\* every step each payment still exists, at the same place, with the same
\* numeric id and the same payment_link_id.
C24_IdentityImmutable ==
    [][/\ Len(payments') >= Len(payments)
       /\ \A i \in DOMAIN payments :
             /\ payments'[i].id = payments[i].id
             /\ payments'[i].payment_link_id = payments[i].payment_link_id]_vars

\* C24 witness: a payment that was processed with the gateway and then
\* completed by a webhook, next to a payment created after it
C24_Witness ==
    /\ Len(payments) = 2
    /\ payments[1].status = "completed"
    /\ payments[1].external_payment_id # NULL
    /\ payments[1].fastlipa_response.kind = "webhook"
    /\ payments[1].id = 1
    /\ payments[2].id = 2

\* --------------------------------------------------------------------- C25
\* C25: the webhook audit log is append-only: across every step each row
\* written still exists with the same payment_id, payload, status and error
\* message; no operation updates or deletes an audit row.
C25_AuditAppendOnly ==
    [][/\ Len(webhook_logs') >= Len(webhook_logs)
       /\ \A i \in DOMAIN webhook_logs : webhook_logs'[i] = webhook_logs[i]]_vars

\* C25 witness: two deliveries for the same payment were logged one after the
\* other, with different payloads
C25_Witness ==
    /\ Len(webhook_logs) = 2
    /\ webhook_logs[1].payment_id # NoId
    /\ webhook_logs[2].payment_id = webhook_logs[1].payment_id
    /\ webhook_logs[2].webhook_data # webhook_logs[1].webhook_data

\* --------------------------------------------------------------------- C26
\* C26 as stated: when handleFastlipaWebhook fails after the payment was
\* matched (the status update fails), the error audit row references that
\* payment's numeric id; the reference of an error row is null only when the
\* failure happened before a payment was determined (the status extraction
\* or a lookup failed).
C26_ErrorRowReferencesPayment ==
    [][\A body \in Payloads, fault \in WebhookFaults :
          ( /\ Logged(body)
            /\ WebhookEndpoint(body, fault, FALSE)
            /\ last'.threw ) =>
              LET row == webhook_logs'[Len(webhook_logs')]
                  afterMatch == ~StatusThrows(body) /\ fault = "update"
              IN  /\ row.status = "error"
                  /\ afterMatch =>
                        \A i \in DOMAIN payments :
                            OnlyCandidate(body, i) => row.payment_id = payments[i].id
                  /\ ~afterMatch => row.payment_id = NoId]_vars

\* --------------------------------------------------------------------- C27
\* every processed row references an existing payment, every
\* no_matching_payment row references none
AuditReferences ==
    \A k \in DOMAIN webhook_logs :
        /\ webhook_logs[k].status = "processed" =>
              \E i \in DOMAIN payments : payments[i].id = webhook_logs[k].payment_id
        /\ webhook_logs[k].status = "no_matching_payment" =>
              webhook_logs[k].payment_id = NoId

\* C27: in every reachable state each webhook_logs row with status processed
\* has the numeric id of an existing payment and each row with status
\* no_matching_payment has a null payment_id; the payment a processed row
\* references is one the delivery matches (by transaction id or by recent
\* phone number), whether or not the delivery changed its status.
C27_AuditReferencesConsistent ==
    /\ []AuditReferences
    /\ [][\A body \in Payloads :
             ( /\ Logged(body)
               /\ WebhookEndpoint(body, "none", FALSE)
               /\ last'.outcome = "processed" ) =>
                 \E i \in DOMAIN payments :
                     /\ ExtMatches(body, payments[i]) \/ PhoneMatches(body, payments[i], now)
                     /\ webhook_logs'[Len(webhook_logs')] =
                            LogRow(payments[i].id, body, "processed", NoMsg)]_vars

\* C27 witness: the same delivery was processed twice for a payment; the
\* second one found the status already written and is logged with the
\* payment's id all the same
C27_Witness ==
    /\ Len(webhook_logs) = 2
    /\ Len(payments) = 1
    /\ webhook_logs[1] = webhook_logs[2]
    /\ webhook_logs[2].status = "processed"
    /\ webhook_logs[2].payment_id = payments[1].id
    /\ payments[1].fastlipa_response.kind = "webhook"

\* --------------------------------------------------------------------- C28
\* C28 as stated: updatePaymentStatus called without a gateway response blob
\* leaves the payment's stored response blob unchanged and writes only
\* status, updated_at and (when the new status is completed) paid_at.
C28_PartialUpdate ==
    [][\A linkId \in LinkIds, u \in DirectUpdates :
          ( /\ u[2] = NoBlob
            /\ UpdatePaymentStatus(linkId, u[1], NoBlob, FALSE) ) =>
              \A i \in DOMAIN payments :
                  payments[i].payment_link_id = linkId =>
                      /\ payments'[i].fastlipa_response = payments[i].fastlipa_response
                      /\ payments'[i] =
                            [payments[i] EXCEPT
                                !.status = u[1],
                                !.updated_at = now,
                                !.paid_at = IF u[1] = "completed" THEN now ELSE @]]_vars

\* what is written by a call without a blob, apart from the blob: status,
\* updated_at and paid_at when the status is completed
UpdateWithoutBlobWrites ==
    [][\A linkId \in LinkIds, u \in DirectUpdates :
          ( /\ u[2] = NoBlob
            /\ UpdatePaymentStatus(linkId, u[1], NoBlob, FALSE) ) =>
              \A i \in DOMAIN payments :
                  payments[i].payment_link_id = linkId =>
                      payments'[i] =
                          [payments[i] EXCEPT
                              !.status = u[1],
                              !.fastlipa_response = NoBlob,
                              !.updated_at = now,
                              !.paid_at = IF u[1] = "completed" THEN now ELSE @]]_vars

\* --------------------------------------------------------------------- C29
\* C29: in every reachable state every payment's status is one of pending,
\* processing, completed, failed, cancelled: generatePaymentLink,
\* processPayment, handleFastlipaWebhook for any raw status and
\* handlePaymentCallback for any status never write a status outside this set.
C29_StatusInSet ==
    \A i \in DOMAIN payments : payments[i].status \in Statuses

\* C29 witness: a payment set to processing by a callback with an unlisted
\* status or by processPayment, then set to pending by a webhook whose raw
\* status is not listed
C29_Witness ==
    \E i \in DOMAIN payments :
        /\ payments[i].status = "pending"
        /\ payments[i].fastlipa_response.kind = "webhook"
        /\ payments[i].fastlipa_response.fastlipaStatus = w_weird

\* --------------------------------------------------------------------- C30
\* C30: processPayment is not idempotent at the gateway: every call whose
\* phone number is present sends exactly one create-transaction request,
\* whatever the payment's current status, and no other operation sends one;
\* two calls for the same link send two requests.
C30_RequestPerCall ==
    [][/\ \A linkId \in LinkIds, phoneNumber \in ProcessPhones, amount \in ProcessAmounts,
             gw \in GatewayReplies :
             ( /\ last'.op = "processPayment"
               /\ ProcessPayment(linkId, phoneNumber, amount, gw, FALSE, FALSE) ) =>
                 /\ Len(requests') = Len(requests) + 1
                 /\ SubSeq(requests', 1, Len(requests)) = requests
       /\ requests' # requests => last'.op = "processPayment"]_vars

\* C30 witness: two requests were sent for the one payment there is, the
\* second while it was processing already
C30_Witness ==
    /\ Len(payments) = 1
    /\ Len(requests) = 2
    /\ payments[1].status = "processing"
    /\ last.op = "processPayment"

\* a request was sent for a payment that was completed before
RequestForCompleted ==
    /\ Len(payments) = 1
    /\ Len(requests) = 1
    /\ payments[1].paid_at # NoTime
    /\ payments[1].status = "processing"

C32_AmountRounded ==
    [][\A linkId \in LinkIds, phoneNumber \in ProcessPhones, amount \in ProcessAmounts,
          gw \in GatewayReplies :
          ( /\ Len(requests') = Len(requests) + 1
            /\ ProcessPayment(linkId, phoneNumber, amount, gw, FALSE, FALSE) ) =>
              LET sent == requests'[Len(requests')].amount
                  units == amount \div 100
                  cents == amount % 100
              IN  /\ sent \in Nat
                  /\ cents < 50 => sent = units
                  /\ cents >= 50 => sent = units + 1
                  /\ \A i \in DOMAIN payments : payments'[i].amount = payments[i].amount]_vars

\* C32 witness: 2500.50 was sent as 2501 and 999.49 as 999, for a stored
\* payment
C32_Witness ==
    /\ Len(requests) = 2
    /\ requests[1].amount = 2501
    /\ requests[2].amount = 999
    /\ \E i \in DOMAIN payments : payments[i].status = "processing"

\* --------------------------------------------------------------------- C33
\* the payments a step changes
Changed == {i \in DOMAIN payments : payments'[i] # payments[i]}

NoPaymentMatchable ==
    \A i \in DOMAIN payments :
        payments[i].phone_number = NULL /\ payments[i].external_payment_id = NULL

C35_ProcessingUpdateFails ==
    [][\A linkId \in LinkIds, phoneNumber \in Phones, amount \in Amounts,
          gw \in GatewayOutcomes, fault2 \in BOOLEAN, i \in DOMAIN payments :
          ( /\ Len(requests') = Len(requests) + 1
            /\ gw.kind = "ok"
            /\ payments[i].payment_link_id = linkId
            /\ ProcessPayment(linkId, phoneNumber, amount, gw, TRUE, fault2) ) =>
              /\ last'.threw
              /\ ~last'.success
              /\ IF fault2
                 THEN /\ payments' = payments
                      /\ last'.error = <<"Failed to update payment status",
                                         "storage unavailable">>
                 ELSE /\ payments'[i].status = "failed"
                      /\ payments'[i].fastlipa_response =
                            ErrorBlob(<<"Failed to update payment status",
                                        "storage unavailable">>)
                      /\ last'.error = <<"Payment processing failed",
                                         "Failed to update payment status",
                                         "storage unavailable">>]_vars

\* C35 witness: a payment is failed with the status-update error as its blob
\* although the request was sent to the gateway
C35_Witness ==
    /\ last.op = "processPayment"
    /\ last.threw
    /\ requests # <<>>
    /\ \E i \in DOMAIN payments :
          /\ payments[i].status = "failed"
          /\ payments[i].fastlipa_response = ErrorBlob(MsgUpdate)

\* both updates failed: the caller received the status-update error and the
\* payment is still pending
BothUpdatesFailed ==
    /\ last.op = "processPayment"
    /\ last.error = MsgUpdate
    /\ requests # <<>>
    /\ Len(payments) = 1
    /\ payments[1].status = "pending"

\* --------------------------------------------------------------------- C36
\* C36: processPayment writes status processing after the gateway call
\* without reading the current status: the write sets the payment to
\* processing whatever its status has become since the request was sent and
\* leaves paid_at as it is, so a payment completed by a webhook in between
\* ends processing with paid_at set.
C36_ProcessingOverwrites ==
    [][\A h \in Handlers :
          (inflight[h].pc = "store" /\ ProcessStore(h, FALSE)) =>
              \A i \in DOMAIN payments :
                  payments[i].payment_link_id = inflight[h].link =>
                      /\ payments'[i].status = "processing"
                      /\ payments'[i].paid_at = payments[i].paid_at
                      /\ payments'[i].fastlipa_response.kind \in {"gateway", "null"}]_vars

\* C36 witness: a webhook completed the payment after processPayment had sent
\* its request (paid_at is later than the request); processPayment has
\* returned and the payment is processing with paid_at set
C36_Witness ==
    /\ Len(payments) = 1
    /\ payments[1].status = "processing"
    /\ payments[1].paid_at # NoTime
    /\ payments[1].fastlipa_response.kind = "gateway"
    /\ last.op = "processPayment" /\ last.success
    /\ \E h \in Handlers :
          /\ inflight[h].pc = "done"
          /\ inflight[h].link = payments[1].payment_link_id
          /\ inflight[h].at < payments[1].paid_at
    /\ Len(webhook_logs) = 1
    /\ webhook_logs[1].status = "processed"
    /\ webhook_logs[1].payment_id = payments[1].id
    /\ MapStatus(ExtractStatus(webhook_logs[1].webhook_data)) = "completed"

\* --------------------------------------------------------------------- C37
\* two finished deliveries of the same payload that matched the same payment,
\* and no other delivery
Duplicates(h1, h2) ==
    /\ h1 # h2
    /\ webhookCalls = 2
    /\ inflight[h1].pc = "done" /\ inflight[h2].pc = "done"
    /\ inflight[h1].body = inflight[h2].body
    /\ inflight[h1].outcome = "processed" /\ inflight[h2].outcome = "processed"
    /\ inflight[h1].payment = inflight[h2].payment

\* C37: under every interleaving of two concurrent deliveries of the same
\* payload that match the same payment, with no storage fault, once both have
\* finished the payment's status is the payload's normalized status and
\* exactly two processed audit rows of that payload and payment exist.
C37_DuplicatesConverge ==
    \A h1, h2 \in Handlers :
        Duplicates(h1, h2) =>
            /\ payments[inflight[h1].payment].status =
                  MapStatus(ExtractStatus(inflight[h1].body))
            /\ Cardinality({k \in DOMAIN webhook_logs :
                    webhook_logs[k] = LogRow(inflight[h1].payment, inflight[h1].body,
                                             "processed", NoMsg)}) = 2
            /\ Len(webhook_logs) = 2

\* C37 witness: both deliveries read the old status before either wrote, and
\* both performed the update
C37_Witness ==
    \E h1, h2 \in Handlers :
        /\ Duplicates(h1, h2)
        /\ inflight[h1].previousStatus = "pending"
        /\ inflight[h2].previousStatus = "pending"
        /\ payments[inflight[h1].payment].status = "completed"

\* --------------------------------------------------------------------- C38
\* C38: generatePaymentLink, getPaymentByLinkId, processPayment,
\* handlePaymentCallback, updatePaymentStatus and getPaymentStats leave
\* webhook_logs unchanged, whether they succeed or fail, and getPaymentByLinkId
\* and getPaymentStats leave the payments unchanged too: only the webhook
\* reconciler writes the audit log.
C38_OnlyWebhookLogs ==
    [][/\ last'.op \in {"generatePaymentLink", "getPaymentByLinkId", "processPayment",
                         "handlePaymentCallback", "updatePaymentStatus", "getPaymentStats"}
             => webhook_logs' = webhook_logs
       /\ last'.op \in {"getPaymentByLinkId", "getPaymentStats"}
             => payments' = payments
       /\ webhook_logs' # webhook_logs => last'.op = "webhook"]_vars

\* C38 witness: a callback completed a payment after a webhook had been
\* logged; the log holds the webhook's row only
C38_Witness ==
    /\ last.op = "handlePaymentCallback"
    /\ last.success
    /\ Len(webhook_logs) = 1
    /\ \E i \in DOMAIN payments :
          /\ payments[i].fastlipa_response.kind = "callback"
          /\ payments[i].status = "completed"

\* --------------------------------------------------------------------- C39
\* the delivery in slot h found a payment whose status differs from the
\* payload's normalized status
NeedsUpdate(r) ==
    r.outcome = "processed" /\ r.previousStatus # MapStatus(ExtractStatus(r.body))

\* C39: within a matched delivery the status update and the processed audit
\* row are two statements, the update first.  A delivery that has to change
\* the status reaches its log statement only through the step in which its
\* update commits; the step that writes an audit row changes no payment, and
\* the step that changes a payment writes no audit row; a processed row is
\* written only by a delivery that is at its log statement.
C39_UpdateBeforeLog ==
    [][/\ \A h \in Handlers :
            ( /\ inflight'[h].pc \in {"log", "done"}
              /\ inflight[h].pc \notin {"log", "done"}
              /\ NeedsUpdate(inflight'[h]) ) =>
                /\ inflight[h].pc = "update"
                /\ inflight'[h].pc = "log"
                /\ webhook_logs' = webhook_logs
                /\ \A i \in DOMAIN payments :
                      payments[i].payment_link_id = inflight[h].link =>
                          /\ payments'[i].status = MapStatus(ExtractStatus(inflight[h].body))
                          /\ payments'[i].fastlipa_response.webhookData = inflight[h].body
       /\ webhook_logs' # webhook_logs =>
             /\ payments' = payments
             /\ \E h \in Handlers :
                   /\ inflight[h].pc = "log"
                   /\ inflight'[h].pc = "done"
                   /\ webhook_logs' =
                         Append(webhook_logs,
                                LogRow(IF inflight[h].outcome = "processed"
                                       THEN inflight[h].payment ELSE NoId,
                                       inflight[h].body, inflight[h].outcome,
                                       inflight[h].error))
       /\ payments' # payments => webhook_logs' = webhook_logs]_vars

\* C39 witness: the delivery's update is committed and the delivery is over,
\* but its log insert failed: a status change with no audit row
C39_Witness ==
    \E h \in Handlers :
        /\ inflight[h].pc = "done"
        /\ NeedsUpdate(inflight[h])
        /\ payments[inflight[h].payment].status = MapStatus(ExtractStatus(inflight[h].body))
        /\ payments[inflight[h].payment].fastlipa_response.kind = "webhook"
        /\ payments[inflight[h].payment].fastlipa_response.webhookData = inflight[h].body
        /\ webhook_logs = <<>>
        /\ webhookCalls = 1

====
